---- MODULE Spec2Model ----
(***************************************************************************)
(* A model of sparql_anything_rdf: the Format Registry                     *)
(* (format_handler.py), the Source Loader (rdf_parser.py), the Graph       *)
(* Operations (rdf_to_rdf.py), the Query Dispatcher (sparql_processor.py)  *)
(* and the command line (cli.py).                                          *)
(*                                                                         *)
(* Text is modelled as a sequence of lexemes: a source "dir/data.TTL" is   *)
(* <<"dir", "/", "data", ".TTL">>, a content type                          *)
(* "text/turtle; charset=utf-8" is                                         *)
(* <<"text/turtle", ";", " ", "charset=utf-8">>.  The string operations of *)
(* the code (split, strip, lower, Path.suffix, urlparse) are defined on    *)
(* these sequences.  None is the one-lexeme sequence <<"<None>">>.         *)
(*                                                                         *)
(* The external graph store (rdflib) and the network (requests) are the    *)
(* environment: a source carries, beside its text, what the environment    *)
(* answers for it (whether the file exists, the HTTP outcome, the engine   *)
(* tokens under which its body parses).  A graph is the set of its         *)
(* triples; what the engine does with a query is named by the step at      *)
(* which it raises, if it does.                                            *)
(*                                                                         *)
(* An object that can be written to after it was handed over (a table of   *)
(* the registry, a Graph of the caller) has an identity: the name under    *)
(* which it is held, or "fresh" when the call made it.                     *)
(***************************************************************************)
EXTENDS Integers, Sequences, FiniteSets, TLC

VARIABLES
    op,        \* the operation that ran last
    arg,       \* its arguments
    calls,     \* the calls it made to the engine's parse, in order
    ret,       \* its outcome: a returned value or a raised exception
    logged,    \* the records it handed to logger.error, in order
    tried,     \* parse_to_dataset: the sources handed to parse, in order
    registry,  \* the class-level tables of FormatHandler and the default
               \* negotiation headers, as they are held now
    heap       \* the Graph objects the caller holds, by name: the triples
               \* and the prefix bindings of each

vars == <<op, arg, calls, ret, logged, tried, registry, heap>>

----------------------------------------------------------------------------
(* Text *)

None == <<"<None>">>

\* Python truthiness of an Optional[str]: None and "" are falsy.
Truthy(s) == s /= None /\ s /= <<>>

\* str.lower() on one lexeme.
LowerLex(l) ==
    CASE l = "TURTLE"    -> "turtle"
      [] l = "Turtle"    -> "turtle"
      [] l = "RDF_XML"   -> "rdf_xml"
      [] l = "N_Triples" -> "n_triples"
      [] l = "TriG"      -> "trig"
      [] l = ".TTL"      -> ".ttl"
      [] l = ".Rdf"      -> ".rdf"
      [] l = ".NT"       -> ".nt"
      [] l = ".OWL"      -> ".owl"
      [] l = "TEXT/TURTLE" -> "text/turtle"
      [] l = "HTTP:"     -> "http:"
      [] OTHER           -> l

\* str.lower()
Lower(s) == [i \in DOMAIN s |-> LowerLex(s[i])]

\* ';' in content_type
HasLex(s, l) == \E i \in DOMAIN s : s[i] = l

\* content_type.split(';')[0]
SplitFirst(s, l) ==
    LET first == CHOOSE i \in DOMAIN s : s[i] = l /\ \A j \in 1..(i-1) : s[j] /= l
    IN  IF HasLex(s, l) THEN SubSeq(s, 1, first - 1) ELSE s

\* str.strip()
RECURSIVE Strip(_)
Strip(s) ==
    IF s = <<>> THEN s
    ELSE IF Head(s) = " " THEN Strip(Tail(s))
    ELSE IF s[Len(s)] = " " THEN Strip(SubSeq(s, 1, Len(s) - 1))
    ELSE s

\* The lexemes that start with a dot and are longer than the dot.
DotSegs == {".ttl", ".TTL", ".rdf", ".Rdf", ".xml", ".nt", ".NT", ".jsonld",
            ".trig", ".nq", ".trix", ".trdf", ".owl", ".OWL", ".txt", ".gz"}

\* The lexemes that separate path components.
Seps == {"/", "//"}

\* Path(source).name: the text after the last separator.
PathName(s) ==
    LET seps == {i \in DOMAIN s : s[i] \in Seps}
        last == IF seps = {} THEN 0 ELSE CHOOSE i \in seps : \A j \in seps : j <= i
    IN  SubSeq(s, last + 1, Len(s))

\* Path(source).suffix: the last dot-segment of the name, unless the name
\* starts with it (a hidden file has no suffix).
PathSuffix(s) ==
    LET name == PathName(s)
    IN  IF Len(name) >= 2 /\ name[Len(name)] \in DotSegs
        THEN <<name[Len(name)]>>
        ELSE <<>>

\* The lexemes that are a URL scheme followed by its colon.
SchemeLexemes == {"http:", "HTTP:", "https:", "ftp:", "file:"}

\* urlparse(source).scheme: the leading scheme, in lowercase, else "".
UrlScheme(s) ==
    IF Len(s) >= 1 /\ s[1] \in SchemeLexemes THEN LowerLex(s[1]) ELSE ""

----------------------------------------------------------------------------
(* format_handler.py *)

RDFFormat == {"RDF_XML", "TURTLE", "N_TRIPLES", "JSON_LD", "TRIG", "N_QUADS",
              "TRIX", "RDF_THRIFT", "OWL_XML", "DEFAULT"}

\* The value of each member of the enumeration.
RDFFormatValue ==
    [RDF_XML |-> "rdf_xml", TURTLE |-> "turtle", N_TRIPLES |-> "n_triples",
     JSON_LD |-> "json_ld", TRIG |-> "trig", N_QUADS |-> "n_quads",
     TRIX |-> "trix", RDF_THRIFT |-> "rdf_thrift", OWL_XML |-> "owl_xml",
     DEFAULT |-> "default"]

ValueError == "ValueError"

\* RDFFormat(value): the member with that value, else ValueError.
RDFFormatOf(s) ==
    IF Len(s) = 1 /\ \E f \in RDFFormat : RDFFormatValue[f] = s[1]
    THEN CHOOSE f \in RDFFormat : RDFFormatValue[f] = s[1]
    ELSE ValueError

MIME_TYPE_MAPPING ==
    ("application/rdf+xml"    :> "RDF_XML") @@
    ("application/xml"        :> "RDF_XML") @@
    ("text/xml"               :> "RDF_XML") @@
    ("text/turtle"            :> "TURTLE") @@
    ("application/turtle"     :> "TURTLE") @@
    ("application/x-turtle"   :> "TURTLE") @@
    ("application/n-triples"  :> "N_TRIPLES") @@
    ("text/plain"             :> "N_TRIPLES") @@
    ("application/ld+json"    :> "JSON_LD") @@
    ("application/json"       :> "JSON_LD") @@
    ("text/trig"              :> "TRIG") @@
    ("application/trig"       :> "TRIG") @@
    ("application/n-quads"    :> "N_QUADS") @@
    ("text/n-quads"           :> "N_QUADS") @@
    ("application/trix+xml"   :> "TRIX") @@
    ("application/rdf+thrift" :> "RDF_THRIFT") @@
    ("application/owl+xml"    :> "OWL_XML")

EXTENSION_MAPPING ==
    (".rdf"    :> "RDF_XML") @@
    (".xml"    :> "RDF_XML") @@
    (".ttl"    :> "TURTLE") @@
    (".nt"     :> "N_TRIPLES") @@
    (".jsonld" :> "JSON_LD") @@
    (".trig"   :> "TRIG") @@
    (".nq"     :> "N_QUADS") @@
    (".trix"   :> "TRIX") @@
    (".trdf"   :> "RDF_THRIFT") @@
    (".owl"    :> "OWL_XML")

RDFLIB_FORMAT_MAPPING ==
    [RDF_XML |-> "xml", TURTLE |-> "turtle", N_TRIPLES |-> "nt",
     JSON_LD |-> "json-ld", TRIG |-> "trig", N_QUADS |-> "nquads",
     TRIX |-> "trix", OWL_XML |-> "xml"]

\* A faulty variant of MimeKey: the parameter suffix is not cut off.
MimeKeyKeepsParams(content_type) == content_type

\* The content type as looked up: a parameter suffix is cut off only when
\* the text holds a ';'.
MimeKey(content_type) ==
    IF HasLex(content_type, ";")
    THEN Strip(SplitFirst(content_type, ";"))
    ELSE content_type

\* FormatHandler.detect_format
detect_format(source, content_type) ==
    LET key == MimeKey(content_type)
        extension == Lower(PathSuffix(source))
    IN  IF Truthy(content_type) /\ Len(key) = 1 /\ key[1] \in DOMAIN MIME_TYPE_MAPPING
        THEN MIME_TYPE_MAPPING[key[1]]
        ELSE IF Len(extension) = 1 /\ extension[1] \in DOMAIN EXTENSION_MAPPING
        THEN EXTENSION_MAPPING[extension[1]]
        ELSE "RDF_XML"

\* FormatHandler.get_rdflib_format
get_rdflib_format(rdf_format) ==
    IF rdf_format \in DOMAIN RDFLIB_FORMAT_MAPPING
    THEN RDFLIB_FORMAT_MAPPING[rdf_format]
    ELSE "xml"

\* The headers get_content_negotiation_headers is written with.
DefaultHeaders ==
    ("Accept" :> "application/rdf+xml, text/turtle, application/ld+json, application/n-triples, text/trig, application/n-quads, */*;q=0.1")
      @@ ("User-Agent" :> "SPARQL-Anything-RDF/1.0.0")

\* The tables and the headers as the class is loaded.
InitialRegistry ==
    [MIME_TYPE_MAPPING |-> MIME_TYPE_MAPPING,
     EXTENSION_MAPPING |-> EXTENSION_MAPPING,
     RDFLIB_FORMAT_MAPPING |-> RDFLIB_FORMAT_MAPPING,
     headers |-> DefaultHeaders]

\* An object handed to a caller: what it holds, and which object it is, one
\* made by the call (fresh) or one the registry holds.
Object(ref, value) == [ref |-> ref, value |-> value]

\* FormatHandler.get_mime_types(): set(cls.MIME_TYPE_MAPPING.keys())
get_mime_types(held) == Object("fresh", DOMAIN held.MIME_TYPE_MAPPING)

\* FormatHandler.get_extensions(): set(cls.EXTENSION_MAPPING.keys())
get_extensions(held) == Object("fresh", DOMAIN held.EXTENSION_MAPPING)

\* A faulty variant of get_content_negotiation_headers: the dictionary is
\* one the class holds, and every caller gets that one.
get_content_negotiation_headers_shared(held) == Object("headers", held.headers)

\* FormatHandler.get_content_negotiation_headers(): a dictionary written
\* out in the call.
get_content_negotiation_headers(held) == Object("fresh", held.headers)

\* What the registry holds after dict.update(entries) on an object.
HeldAfterUpdate(held, object, entries) ==
    IF object.ref = "fresh" THEN held
    ELSE [held EXCEPT ![object.ref] = entries @@ @]

\* The headers of the request of _parse_from_url: the negotiation headers,
\* updated with config['headers'] when the configuration has them.
RequestHeaders(held, config_headers) ==
    LET headers == get_content_negotiation_headers(held)
    IN  [sent |-> config_headers @@ headers.value,
         held |-> HeldAfterUpdate(held, headers, config_headers)]

----------------------------------------------------------------------------
(* The environment: the engine's parsers, the file system, the network *)

\* The format tokens the engine has a parser for.
EngineTokens == {"xml", "turtle", "nt", "json-ld", "trig", "nquads", "trix"}

\* The triples the engine's parser for tok adds when it accepts the body of
\* src: they name the source and the parser that produced them.
FullTriples(src, tok) == {<<src.text, tok, "full">>}

\* The triples a parser that raises may have added before it raised.
PartialTriples(src, tok) ==
    IF src.partial THEN {<<src.text, tok, "partial">>} ELSE {}

\* graph.parse(..., format=token, publicID=base) on a graph holding `into`:
\* the call as made, whether it returned, and the graph's triples after it.
\* The engine's name of its parser for a format it reads.
EngineParserFor ==
    [RDF_XML |-> "xml", TURTLE |-> "turtle", N_TRIPLES |-> "nt",
     JSON_LD |-> "json-ld", TRIG |-> "trig", N_QUADS |-> "nquads",
     TRIX |-> "trix"]

EngineParse(src, fmt, token, into, base) ==
    LET ok == token \in src.accepts
    IN  [format |-> fmt, token |-> token, publicID |-> base, into |-> into,
         ok |-> ok,
         after |-> into \cup (IF ok THEN FullTriples(src, token)
                                    ELSE PartialTriples(src, token))]

----------------------------------------------------------------------------
(* rdf_parser.py *)

\* A returned value.
Return(v) == [kind |-> "return", exc |-> "", msg |-> <<>>, value |-> v]

\* A raised exception: its type and its message.
Raise(e, m) == [kind |-> "raise", exc |-> e, msg |-> m, value |-> {}]

\* RDFParser._is_url
is_url(source) == UrlScheme(source) \in {"http:", "https:", "ftp:"}

\* A faulty variant of SelectFormat: detection wins over the hint.
SelectFormatDetectFirst(format_hint, detected) == detected

\* The "Detect format" block of the three _parse_from_* methods: a hint that
\* names a member wins, any other hint leaves the detected format.
SelectFormat(format_hint, detected) ==
    IF Truthy(format_hint)
    THEN IF RDFFormatOf(Lower(format_hint)) = ValueError
         THEN detected
         ELSE RDFFormatOf(Lower(format_hint))
    ELSE detected

\* A faulty variant of AlternativeList: the last candidate is missing.
AlternativeListShort == <<"TURTLE", "RDF_XML", "N_TRIPLES">>

\* The candidate list of the two _try_alternative_formats methods.
AlternativeList == <<"TURTLE", "RDF_XML", "N_TRIPLES", "JSON_LD">>

\* A faulty variant of Alternatives: the failed format stays in the list.
AlternativesKeepFailed(failed_format) == AlternativeList

\* alternatives, after alternatives.remove(failed_format).
Alternatives(failed_format) ==
    SelectSeq(AlternativeList, LAMBDA f : f /= failed_format)

\* A faulty variant of RetryGraph: the retry parses into the graph of the attempt
\* before it.
RetryGraphReused(graph) == graph

\* "graph = Graph()" in the retry loop: the graph a candidate is parsed into.
RetryGraph(graph) == {}

\* The loop of _try_alternative_formats and _try_alternative_formats_from_data
\* over the candidates left, after the calls `done`, the last of which left
\* `graph`: the first candidate that parses ends it.
RECURSIVE TryLoop(_, _, _, _, _)
TryLoop(src, source_name, alts, done, graph) ==
    IF alts = <<>>
    THEN [calls |-> done,
          out |-> Raise("RDFParsingError",
                        <<"Failed to parse ">> \o source_name
                          \o <<" with any supported format">>)]
    ELSE LET c == EngineParse(src, Head(alts), get_rdflib_format(Head(alts)),
                              RetryGraph(graph), None)
         IN  IF c.ok
             THEN [calls |-> Append(done, c), out |-> Return(c.after)]
             ELSE TryLoop(src, source_name, Tail(alts), Append(done, c), c.after)

\* RDFParser._try_alternative_formats
try_alternative_formats(src, first, source, failed_format) ==
    TryLoop(src, source, Alternatives(failed_format), <<first>>, first.after)

\* RDFParser._try_alternative_formats_from_data
try_alternative_formats_from_data(src, first, source_name, failed_format) ==
    TryLoop(src, source_name, Alternatives(failed_format), <<first>>, first.after)

\* A faulty variant of PathExists: the check is passed by every path.
PathExistsAlways(src) == TRUE

\* path.exists()
PathExists(src) == src.io /= "missing"

\* RDFParser._parse_from_file
parse_from_file(src, format_hint) ==
    IF ~PathExists(src)
    THEN [calls |-> <<>>,
          out |-> Raise("RDFParsingError", <<"File not found: ">> \o src.text)]
    ELSE LET rdf_format == SelectFormat(format_hint, detect_format(src.text, None))
             first == EngineParse(src, rdf_format, get_rdflib_format(rdf_format),
                                  {}, None)
         IN  IF first.ok
             THEN [calls |-> <<first>>, out |-> Return(first.after)]
             ELSE try_alternative_formats(src, first, src.text, rdf_format)

\* RDFParser._parse_from_url
parse_from_url(src, format_hint, content_type) ==
    IF src.io \in {"conn_error", "http_error"}
    THEN [calls |-> <<>>,
          out |-> Raise("RDFParsingError",
                        <<"Failed to fetch RDF data from ">> \o src.text)]
    ELSE LET actual_content_type ==
                 IF Truthy(content_type) THEN content_type ELSE src.ctype
             rdf_format == SelectFormat(format_hint,
                               detect_format(src.text, actual_content_type))
             first == EngineParse(src, rdf_format, get_rdflib_format(rdf_format),
                                  {}, src.text)
         IN  IF first.ok
             THEN [calls |-> <<first>>, out |-> Return(first.after)]
             ELSE try_alternative_formats_from_data(src, first, src.text, rdf_format)

\* RDFParser._parse_from_stream
parse_from_stream(src, format_hint) ==
    IF src.io = "decode_error"
    THEN [calls |-> <<>>, out |-> Raise("UnicodeDecodeError", <<"utf-8">>)]
    ELSE LET rdf_format == SelectFormat(format_hint, "TURTLE")
             first == EngineParse(src, rdf_format, get_rdflib_format(rdf_format),
                                  {}, None)
         IN  IF first.ok
             THEN [calls |-> <<first>>, out |-> Return(first.after)]
             ELSE try_alternative_formats_from_data(src, first, <<"stream">>, rdf_format)

\* A faulty variant of WrapError: the exception is passed on as raised.
WrapErrorReraise(out) == out

\* The except clause of RDFParser.parse: whatever was raised is raised again
\* as RDFParsingError, its message kept.
WrapError(out) ==
    IF out.kind = "raise"
    THEN Raise("RDFParsingError", <<"RDF parsing failed: ">> \o out.msg)
    ELSE out

\* RDFParser.parse: the calls made, the outcome, and what was logged.
parse(src, format_hint, content_type) ==
    LET inner == IF src.kind = "str"
                 THEN IF is_url(src.text)
                      THEN parse_from_url(src, format_hint, content_type)
                      ELSE parse_from_file(src, format_hint)
                 ELSE parse_from_stream(src, format_hint)
    IN  [calls |-> inner.calls,
         out |-> WrapError(inner.out),
         logged |-> IF inner.out.kind = "raise"
                    THEN <<<<"Failed to parse RDF data: ">> \o inner.out.msg>>
                    ELSE <<>>]

\* Dataset.add_graph(graph, context=source_uri).  The engine declares
\* Dataset.add_graph(self, g): with an engine that takes no context keyword
\* (kw false) the call raises TypeError; with one that takes it the graph is
\* registered under source_uri.  Which one is installed is not the code's
\* choice, so both are outcomes of the call.
add_graph(dataset, graph, source_uri, kw) ==
    IF kw
    THEN [ok |-> TRUE, dataset |-> (source_uri :> graph) @@ dataset]
    ELSE [ok |-> FALSE, dataset |-> dataset]

\* A faulty variant of Swallowed: only RDFParsingError is caught.
SwallowedParsingErrorOnly(exc) == exc = "RDFParsingError"

\* The except clause of parse_to_dataset: "except Exception" catches every
\* exception raised in the loop body.
Swallowed(exc) == TRUE

\* format_hints.get(str(source))
HintFor(format_hints, source) ==
    IF source.text \in DOMAIN format_hints THEN format_hints[source.text] ELSE None

\* The outcome of one pass through the loop body, for an exception exc
\* raised in it: it is logged and the loop goes on, or when it is not
\* caught it ends parse_to_dataset.
LoopFailure(seen, source, exc, inner_log) ==
    IF Swallowed(exc)
    THEN [seen EXCEPT !.logged = seen.logged \o inner_log \o
                          <<<<"Failed to parse source ">> \o source.text>>]
    ELSE [seen EXCEPT !.logged = seen.logged \o inner_log,
                      !.raised = exc]

\* The body of the loop of parse_to_dataset for one source, r being the
\* outcome of parse for it; acc holds the dataset, the engine calls, the log
\* and the sources tried so far.
DatasetStep(acc, source, r, kw) ==
    IF r.out.kind = "raise"
    THEN LoopFailure([acc EXCEPT !.calls = acc.calls \o r.calls,
                                 !.tried = Append(acc.tried, source.text)],
                     source, r.out.exc, r.logged)
    ELSE IF ~add_graph(acc.dataset, r.out.value, source.text, kw).ok
    THEN LoopFailure([acc EXCEPT !.calls = acc.calls \o r.calls,
                                 !.tried = Append(acc.tried, source.text)],
                     source, "TypeError", <<>>)
    ELSE [acc EXCEPT !.calls = acc.calls \o r.calls,
                     !.tried = Append(acc.tried, source.text),
                     !.dataset = add_graph(acc.dataset, r.out.value,
                                           source.text, kw).dataset]

\* The loop of RDFParser.parse_to_dataset over the sources left.
RECURSIVE DatasetLoop(_, _, _, _)
DatasetLoop(sources, format_hints, kw, acc) ==
    IF sources = <<>> \/ acc.raised /= ""
    THEN acc
    ELSE DatasetLoop(Tail(sources), format_hints, kw,
             DatasetStep(acc, Head(sources),
                 parse(Head(sources), HintFor(format_hints, Head(sources)), None),
                 kw))

\* The outcome of parse_to_dataset after its loop.
DatasetOutcome(acc) ==
    [calls |-> acc.calls,
     out |-> IF acc.raised = "" THEN Return(acc.dataset)
             ELSE Raise(acc.raised, <<>>),
     logged |-> acc.logged, tried |-> acc.tried]

\* RDFParser.parse_to_dataset
parse_to_dataset(sources, format_hints, kw) ==
    DatasetOutcome(DatasetLoop(sources, format_hints, kw,
        [dataset |-> <<>>, calls |-> <<>>, logged |-> <<>>, tried |-> <<>>,
         raised |-> ""]))

----------------------------------------------------------------------------
(* Bounds and inputs *)

\* The longest list of sources handed to parse_to_dataset.
MaxSources == 2

\* The most blanks around the MIME type of a content type.
MaxPad == 1

\* Format hints: none, empty, every member's value, other spellings of
\* members, and texts that name no member.
Hints ==
    {None, <<>>, <<"TURTLE">>, <<"N_Triples">>, <<"ttl">>}
      \cup {<<RDFFormatValue[f]>> : f \in RDFFormat}

\* The body of a source: the tokens under which the engine parses it, and
\* whether a parser that rejects it leaves triples behind.
Bodies == [accepts : SUBSET EngineTokens, partial : BOOLEAN]

FileTexts ==
    {<<"data", ".ttl">>, <<"data", ".Rdf">>, <<"dir", "/", "notes", ".txt">>,
     <<"onto", ".owl">>}

UrlTexts ==
    {<<"http:", "//", "example.org", "/", "data", ".ttl">>,
     <<"HTTP:", "//", "example.org", "/", "sparql">>}

\* The content-type header of a response.
ResponseTypes ==
    {None, <<"text/turtle", ";", " ", "charset=utf-8">>, <<"text/html">>}

\* The content_type argument of parse.
ContentTypeArgs == {None, <<"application/n-triples">>}

Source(kind, text, io, ctype, body) ==
    [kind |-> kind, text |-> text, io |-> io, ctype |-> ctype,
     accepts |-> body.accepts, partial |-> body.partial]

NoBody == [accepts |-> {}, partial |-> FALSE]

Sources ==
    {Source("str", t, "missing", None, NoBody) : t \in FileTexts}
      \cup {Source("str", t, "ok", None, b) : t \in FileTexts, b \in Bodies}
      \cup {Source("str", t, io, None, NoBody) :
                t \in UrlTexts, io \in {"conn_error", "http_error"}}
      \cup {Source("str", t, "ok", c, b) :
                t \in UrlTexts, c \in ResponseTypes, b \in Bodies}
      \cup {Source("stream", <<"<stream>">>, "decode_error", None, NoBody)}
      \cup {Source("stream", <<"<stream>">>, "ok", None, b) : b \in Bodies}

\* The sources of the lists handed to parse_to_dataset: no two have the same
\* text.
DatasetSources ==
    {Source("str", <<"good", ".ttl">>, "ok", None,
            [accepts |-> {"turtle"}, partial |-> FALSE]),
     Source("str", <<"notes", ".txt">>, "ok", None,
            [accepts |-> {"turtle", "nt"}, partial |-> TRUE]),
     Source("str", <<"broken", ".ttl">>, "ok", None,
            [accepts |-> {}, partial |-> TRUE]),
     Source("str", <<"missing", ".rdf">>, "missing", None, NoBody),
     Source("str", <<"http:", "//", "example.org", "/", "ok", ".rdf">>, "ok",
            <<"application/rdf+xml">>, [accepts |-> {"xml"}, partial |-> FALSE]),
     Source("str", <<"https:", "//", "example.org", "/", "gone">>, "http_error",
            None, NoBody)}

\* The sources handed to detect_format.
DetectSources ==
    FileTexts \cup UrlTexts
      \cup {<<"file", e>> : e \in DOMAIN EXTENSION_MAPPING}
      \cup {<<"data", ".TTL">>, <<"DATA", ".NT">>, <<".ttl">>, <<"data">>,
            <<"data", ".ttl", ".gz">>, <<"dir", ".ttl", "/", "data">>}

\* n blanks
RECURSIVE Blanks(_)
Blanks(n) == IF n = 0 THEN <<>> ELSE <<" ">> \o Blanks(n - 1)

\* The parameter suffixes of a content type.
ParamSuffixes == {<<>>, <<";", " ", "charset=utf-8">>, <<";">>}

\* The content types handed to detect_format: none, empty, and a MIME type
\* (of the table or not) between blanks and before a parameter suffix.
DetectContentTypes ==
    {None, <<>>}
      \cup {Blanks(i) \o <<m>> \o Blanks(j) \o ps :
                m \in DOMAIN MIME_TYPE_MAPPING \cup {"text/html", "TEXT/TURTLE"},
                i \in 0..MaxPad, j \in 0..MaxPad, ps \in ParamSuffixes}

\* The lists of at most n elements of S.
SeqsUpTo(S, n) == UNION {[1..k -> S] : k \in 0..n}

\* The format_hints of parse_to_dataset: none, or a hint for one source.
HintMaps ==
    {<<>>} \cup {(s.text :> h) : s \in DatasetSources, h \in {<<"turtle">>, <<"ttl">>}}

----------------------------------------------------------------------------
(* The loader *)

\* The names under which the caller holds its Graph objects.
GraphNames == {"g1", "g2"}

\* Graph(): a graph without triples, with no prefix bound but the engine's.
EmptyGraph == [triples |-> {}, namespaces |-> {}]

\* The caller has made its graphs and put nothing in yet.
InitialHeap == [name \in GraphNames |-> EmptyGraph]

Init ==
    /\ op = "idle"
    /\ arg = [source |-> None]
    /\ calls = <<>>
    /\ ret = Return({})
    /\ logged = <<>>
    /\ tried = <<>>
    /\ registry = InitialRegistry
    /\ heap = InitialHeap

\* RDFParser.parse(source, format_hint, content_type)
Load ==
    /\ op = "idle"
    /\ \E src \in Sources, format_hint \in Hints, content_type \in ContentTypeArgs :
        LET r == parse(src, format_hint, content_type)
        IN  /\ content_type /= None => src.kind = "str" /\ is_url(src.text)
            /\ op' = "parse"
            /\ arg' = [source |-> src, format_hint |-> format_hint,
                       content_type |-> content_type]
            /\ calls' = r.calls
            /\ ret' = r.out
            /\ logged' = r.logged
            /\ tried' = <<>>
            /\ registry' = registry
            /\ heap' = heap

\* RDFParser.parse_to_dataset(sources, format_hints)
LoadDataset ==
    /\ op = "idle"
    /\ \E sources \in SeqsUpTo(DatasetSources, MaxSources),
          format_hints \in HintMaps, kw \in BOOLEAN :
        LET r == parse_to_dataset(sources, format_hints, kw)
        IN  /\ op' = "parse_to_dataset"
            /\ arg' = [sources |-> sources, format_hints |-> format_hints,
                       add_graph_kw |-> kw]
            /\ calls' = r.calls
            /\ ret' = r.out
            /\ logged' = r.logged
            /\ tried' = r.tried
            /\ registry' = registry
            /\ heap' = heap

\* The caller takes the outcome of the call; the loader keeps nothing of it.
Done ==
    /\ op /= "idle"
    /\ op' = "idle"
    /\ arg' = [source |-> None]
    /\ calls' = <<>>
    /\ ret' = Return({})
    /\ logged' = <<>>
    /\ tried' = <<>>
    /\ registry' = registry
    /\ heap' = heap

Next == Load \/ LoadDataset \/ Done

Spec == Init /\ [][Next]_vars

----------------------------------------------------------------------------
(* The registry *)

\* FormatHandler.detect_format(source, content_type)
Detect ==
    /\ op = "idle"
    /\ \E source \in DetectSources, content_type \in DetectContentTypes :
        /\ op' = "detect_format"
        /\ arg' = [source |-> source, content_type |-> content_type]
        /\ calls' = <<>>
        /\ ret' = Return(detect_format(source, content_type))
        /\ logged' = <<>>
        /\ tried' = <<>>
        /\ registry' = registry
        /\ heap' = heap

NextRegistry == Detect \/ Done

SpecRegistry == Init /\ [][NextRegistry]_vars

----------------------------------------------------------------------------
(* Properties of the loader *)

\* The candidate formats of the retry, as the documentation lists them.
FourCandidates == <<"TURTLE", "RDF_XML", "N_TRIPLES", "JSON_LD">>

FourCandidateSet == {FourCandidates[i] : i \in DOMAIN FourCandidates}

\* The hints of Hints that name the member f.
Spellings(f) ==
    {<<RDFFormatValue[f]>>}
      \cup (IF f = "TURTLE" THEN {<<"TURTLE">>} ELSE {})
      \cup (IF f = "N_TRIPLES" THEN {<<"N_Triples">>} ELSE {})

\* The hints of Hints that name no member.
NoMemberHints == {None, <<>>, <<"ttl">>}

\* t occurs in s as a run of consecutive lexemes.
Occurs(t, s) ==
    \E i \in 0..(Len(s) - Len(t)) : SubSeq(s, i + 1, i + Len(t)) = t

\* A load ran and its initial parse attempt raised.
InitialFailed == op = "parse" /\ Len(calls) >= 1 /\ ~calls[1].ok

\* C1: when the initial parse attempt of a load raises, the retry goes
\* through Turtle, RDF/XML, N-Triples, JSON-LD without the format attempted
\* first, in that order and each into an empty graph; it ends with the first
\* candidate that parses, whose triples and no others are returned; when no
\* candidate parses every candidate was tried.
C1_FallbackOrder ==
    InitialFailed =>
        LET cand == SelectSeq(FourCandidates, LAMBDA f : f /= calls[1].format)
            n == Len(calls) - 1
        IN  /\ n <= Len(cand)
            /\ \A i \in 1..n :
                  /\ calls[i + 1].format = cand[i]
                  /\ calls[i + 1].token = EngineParserFor[cand[i]]
                  /\ calls[i + 1].into = {}
            /\ \A i \in 1..(n - 1) : ~calls[i + 1].ok
            /\ calls[n + 1].ok =>
                  /\ ret.kind = "return"
                  /\ ret.value = {<<arg.source.text, calls[n + 1].token, "full">>}
            /\ ~calls[n + 1].ok => n = Len(cand) /\ ret.kind = "raise"

\* The second candidate of the retry won after two attempts that each left
\* triples behind.
C1_Witness ==
    /\ InitialFailed
    /\ Len(calls) = 3
    /\ calls[3].ok
    /\ arg.source.partial
    /\ ret.kind = "return"

\* C2 as claimed: a load makes at most 3 retry attempts, whatever format
\* was attempted first.
C2_AtMostThree == op = "parse" /\ Len(calls) >= 1 => Len(calls) - 1 <= 3

\* C2, amended: a load makes at most 3 retry attempts when the format
\* attempted first is one of Turtle, RDF/XML, N-Triples, JSON-LD, and at
\* most 4 when it is any other member of the enumeration.
C2_RetryBound ==
    op = "parse" /\ Len(calls) >= 1 =>
        /\ Len(calls) - 1 <= 4
        /\ calls[1].format \in FourCandidateSet => Len(calls) - 1 <= 3

\* A load that attempted Turtle first and then all three other candidates.
C2_Witness ==
    /\ op = "parse"
    /\ Len(calls) = 4
    /\ calls[1].format = "TURTLE"
    /\ ret.kind = "raise"

\* C3: no exception but RDFParsingError leaves a load; when the initial
\* attempt and every retry failed the load raises RDFParsingError, with a
\* message that names the source, and returns no graph.
C3_OnlyParsingError ==
    op = "parse" =>
        /\ ret.kind = "raise" => ret.exc = "RDFParsingError"
        /\ (Len(calls) >= 1 /\ \A i \in DOMAIN calls : ~calls[i].ok) =>
              /\ ret.kind = "raise"
              /\ ret.exc = "RDFParsingError"
              /\ Occurs(IF arg.source.kind = "str" THEN arg.source.text
                        ELSE <<"stream">>, ret.msg)

\* A file whose body no parser accepts: the initial attempt and all four
\* candidates failed, leaving triples behind, and the load raised.
C3_Witness ==
    /\ op = "parse"
    /\ Len(calls) = 5
    /\ \A i \in DOMAIN calls : ~calls[i].ok
    /\ arg.source.partial
    /\ arg.source.text \in FileTexts
    /\ ret.kind = "raise"

\* C4: the load of a local path that does not exist raises RDFParsingError
\* and hands nothing to the engine's parser, whatever the format hint.
C4_MissingFile ==
    (op = "parse" /\ arg.source.text \in FileTexts /\ arg.source.io = "missing") =>
        /\ ret.kind = "raise"
        /\ ret.exc = "RDFParsingError"
        /\ calls = <<>>

\* The load of a missing file with a hint that names a member.
C4_Witness ==
    /\ op = "parse"
    /\ arg.source.text \in FileTexts
    /\ arg.source.io = "missing"
    /\ arg.format_hint = <<"json_ld">>
    /\ ret.kind = "raise"

\* C5: a file that the engine's parser for F accepts, F one of Turtle,
\* RDF/XML, N-Triples, JSON-LD, loaded with a hint that names another
\* member H of the enumeration, is returned as a graph.
C5_WrongHint ==
    (op = "parse" /\ arg.source.text \in FileTexts /\ arg.source.io = "ok") =>
        \A H \in RDFFormat, F \in FourCandidateSet :
            (/\ arg.format_hint \in Spellings(H)
             /\ F /= H
             /\ EngineParserFor[F] \in arg.source.accepts) =>
                /\ ret.kind = "return"
                /\ ret.value /= {}

\* A JSON-LD file loaded with the hint rdf_xml: the last candidate won.
C5_Witness ==
    /\ op = "parse"
    /\ arg.source.text \in FileTexts
    /\ arg.format_hint = <<"rdf_xml">>
    /\ arg.source.accepts = {"json-ld"}
    /\ Len(calls) = 4
    /\ ret.kind = "return"

\* C6: the format of the initial parse attempt is the member the hint names,
\* for a file, a URL and a stream alike; with a hint that names no member
\* the attempt is still made, with the detected format for a path or a URL
\* and with Turtle for a stream.
C6_HintFirst ==
    op = "parse" =>
        /\ arg.source.io = "ok" => Len(calls) >= 1
        /\ Len(calls) >= 1 =>
              /\ \A H \in RDFFormat :
                    arg.format_hint \in Spellings(H) => calls[1].format = H
              /\ arg.format_hint \in NoMemberHints =>
                    calls[1].format =
                        IF arg.source.kind = "stream" THEN "TURTLE"
                        ELSE detect_format(arg.source.text,
                                 IF Truthy(arg.content_type) THEN arg.content_type
                                 ELSE arg.source.ctype)

\* A URL answered as Turtle and loaded with the hint N_Triples: N-Triples
\* was attempted first.
C6_Witness ==
    /\ op = "parse"
    /\ arg.source.text \in UrlTexts
    /\ arg.source.ctype = <<"text/turtle", ";", " ", "charset=utf-8">>
    /\ arg.format_hint = <<"N_Triples">>
    /\ Len(calls) >= 1
    /\ calls[1].format = "N_TRIPLES"

\* The sources of a parse_to_dataset call whose load fails.
FailedSources ==
    {i \in DOMAIN arg.sources :
        \/ arg.sources[i].io /= "ok"
        \/ arg.sources[i].accepts = {}}

\* C8: parse_to_dataset returns for every list of sources: every source of
\* the list is handed to parse, in order, also after one that failed, and
\* every failure is logged.
C8_ContinueOnError ==
    op = "parse_to_dataset" =>
        /\ ret.kind = "return"
        /\ tried = [i \in DOMAIN arg.sources |-> arg.sources[i].text]
        /\ \A i \in FailedSources :
              \E k \in DOMAIN logged :
                  logged[k] = <<"Failed to parse source ">> \o arg.sources[i].text

\* A list whose first source is missing and whose second source parses.
C8_Witness ==
    /\ op = "parse_to_dataset"
    /\ Len(arg.sources) = 2
    /\ arg.sources[1].io = "missing"
    /\ arg.sources[2].accepts = {"turtle"}
    /\ Len(tried) = 2
    /\ ret.kind = "return"

\* C9 as claimed: the dataset parse_to_dataset returns holds, for every
\* source whose load succeeded, that source's triples under the identifier
\* made of its text, and nothing for a source whose load failed.
C9_DatasetHoldsLoaded ==
    op = "parse_to_dataset" =>
        /\ ret.kind = "return"
        /\ \A i \in DOMAIN arg.sources :
              LET source == arg.sources[i]
                  load == parse(source, HintFor(arg.format_hints, source), None).out
              IN  IF load.kind = "return"
                  THEN /\ source.text \in DOMAIN ret.value
                       /\ ret.value[source.text] = load.value
                  ELSE source.text \notin DOMAIN ret.value

\* C10 as claimed: a load from a URL whose GET fails or is answered with an
\* error status raises FetchError and hands nothing to the engine's parser.
C10_FetchError ==
    (op = "parse" /\ arg.source.text \in UrlTexts /\ arg.source.io /= "ok") =>
        /\ ret.kind = "raise"
        /\ ret.exc = "FetchError"
        /\ calls = <<>>

\* C11 as claimed: the graph a load returns for a URL comes from a parse
\* call whose base identifier (publicID) is that URL, for the initial
\* attempt and for a fallback candidate alike.
C11_BaseIsUrl ==
    (op = "parse" /\ arg.source.text \in UrlTexts /\ ret.kind = "return") =>
        /\ Len(calls) >= 1
        /\ calls[Len(calls)].ok
        /\ calls[Len(calls)].publicID = arg.source.text

----------------------------------------------------------------------------
(* Properties of the registry *)

\* The MIME types of the table that stand at the head of the content type:
\* alone, or before a ';' with blanks around them.
HeadMimes(content_type) ==
    {m \in DOMAIN MIME_TYPE_MAPPING :
        \/ content_type = <<m>>
        \/ \E i, j \in 0..Len(content_type) :
              /\ i + 1 + j + 1 <= Len(content_type)
              /\ SubSeq(content_type, 1, i + 1 + j + 1)
                    = Blanks(i) \o <<m>> \o Blanks(j) \o <<";">>}

\* The extensions of the table that the source ends with, in any case,
\* after a stem.
TailExtensions(source) ==
    {e \in DOMAIN EXTENSION_MAPPING :
        /\ Len(source) >= 2
        /\ source[Len(source) - 1] \notin Seps
        /\ source[Len(source)] \in {e, IF e = ".ttl" THEN ".TTL" ELSE e,
                                    IF e = ".rdf" THEN ".Rdf" ELSE e,
                                    IF e = ".nt" THEN ".NT" ELSE e,
                                    IF e = ".owl" THEN ".OWL" ELSE e}}

\* C7: detect_format returns the format the MIME table gives for the MIME
\* type of the content type, with or without a parameter suffix; without a
\* content type, the format the extension table gives for the extension in
\* lowercase; RDF/XML when neither table has an entry; never DEFAULT, and it
\* never raises.
C7_DetectLookup ==
    op = "detect_format" =>
        /\ ret.kind = "return"
        /\ ret.value \in RDFFormat \ {"DEFAULT"}
        /\ \A m \in HeadMimes(arg.content_type) : ret.value = MIME_TYPE_MAPPING[m]
        /\ ~Truthy(arg.content_type) =>
              \A e \in TailExtensions(arg.source) : ret.value = EXTENSION_MAPPING[e]
        /\ (HeadMimes(arg.content_type) = {} /\ TailExtensions(arg.source) = {}) =>
              ret.value = "RDF_XML"

\* A content type with a charset parameter, for a source whose extension
\* names another format.
C7_Witness ==
    /\ op = "detect_format"
    /\ arg.content_type = <<"application/ld+json", ";", " ", "charset=utf-8">>
    /\ arg.source = <<"data", ".ttl">>
    /\ ret.value = "JSON_LD"

----------------------------------------------------------------------------
(* rdf_to_rdf.py *)

\* A graph is the set of its triples; a triple is <<subject, predicate,
\* object>>; a term carries its class and its string form.  Terms of
\* different classes are different terms also when their string forms agree.
URIRef(s) == [kind |-> "uri", str |-> s]
BNode(s) == [kind |-> "bnode", str |-> s]
Literal(s) == [kind |-> "literal", str |-> s]

\* str(term)
str(term) == term.str

\* The vocabulary of rdflib.namespace that the converter names.
RDF_type == URIRef("rdf:type")
RDF_Property == URIRef("rdf:Property")
RDFS_Class == URIRef("rdfs:Class")
RDFS_subClassOf == URIRef("rdfs:subClassOf")
RDFS_domain == URIRef("rdfs:domain")
RDFS_range == URIRef("rdfs:range")
RDFS_subPropertyOf == URIRef("rdfs:subPropertyOf")
OWL_Class == URIRef("owl:Class")
OWL_equivalentClass == URIRef("owl:equivalentClass")
OWL_ObjectProperty == URIRef("owl:ObjectProperty")
OWL_DatatypeProperty == URIRef("owl:DatatypeProperty")
OWL_AnnotationProperty == URIRef("owl:AnnotationProperty")

\* self.namespaces, with an empty configuration.
CommonNamespaces == {"rdf", "rdfs", "xsd", "owl"}

\* _add_common_namespaces(graph): the prefixes bound on the graph, whose
\* triples stay as they are.
add_common_namespaces(graph) ==
    [call |-> "bind", prefixes |-> CommonNamespaces, after |-> graph]

\* A faulty variant of GraphAdd: the triples added replace those of the target.
GraphAddReplace(target_graph, triples) ==
    IF triples = {} THEN target_graph ELSE triples

\* for triple in graph: target_graph.add(triple)
GraphAdd(target_graph, triples) == target_graph \cup triples

\* The loop of merge_graphs over the list of graphs.
RECURSIVE MergeLoop(_, _)
MergeLoop(graphs, target_graph) ==
    IF graphs = <<>> THEN target_graph
    ELSE MergeLoop(Tail(graphs), GraphAdd(target_graph, Head(graphs)))

\* RDFToRDF.merge_graphs(graphs, target_graph); target_graph is a record
\* that says whether a graph was passed and which.
merge_graphs(graphs, target_graph) ==
    MergeLoop(graphs, IF target_graph.given THEN target_graph.graph ELSE {})

\* str(component) in allow_list
InList(s, allow_list) == \E i \in DOMAIN allow_list : allow_list[i] = s

\* Python truthiness of an Optional[List[str]]: None and [] are falsy.
\* filter_graph tests each filter with it before it looks the component up.
FilterGiven(allow_list) == Truthy(allow_list)

\* The body of the loop of filter_graph for one triple.
Include(triple, predicate_filter, subject_filter, object_filter) ==
    /\ ~(FilterGiven(predicate_filter) /\ ~InList(str(triple[2]), predicate_filter))
    /\ ~(FilterGiven(subject_filter) /\ ~InList(str(triple[1]), subject_filter))
    /\ ~(FilterGiven(object_filter) /\ ~InList(str(triple[3]), object_filter))

\* RDFToRDF.filter_graph(graph, predicate_filter, subject_filter, object_filter)
filter_graph(graph, predicate_filter, subject_filter, object_filter) ==
    {triple \in graph : Include(triple, predicate_filter, subject_filter, object_filter)}

\* A faulty variant of Distinct: terms are told apart by their string form.
DistinctByString(read, pos) == Cardinality({str(triple[pos]) : triple \in read})

\* len(stats['subjects']) and the like: the distinct terms at one position
\* of the triples the loop has read.
Distinct(read, pos) == Cardinality({triple[pos] : triple \in read})

\* A faulty variant of Occurrences: every term is counted once.
OccurrencesDistinct(read, pos, kind) ==
    Cardinality({triple[pos] : triple \in {t \in read : t[pos].kind = kind}})

\* The increments of one counter for isinstance(term, kind) at one position,
\* over the triples the loop has read.
Occurrences(read, pos, kind) ==
    Cardinality({triple \in read : triple[pos].kind = kind})

\* RDFToRDF.validate_graph(graph).  The loop read the triples of read before
\* the iteration ended (read = graph, failed = FALSE) or raised (failed).
validate_graph(graph, read, failed) ==
    [total_triples |-> Cardinality(graph),
     blank_nodes |-> Occurrences(read, 1, "bnode") + Occurrences(read, 3, "bnode"),
     literals |-> Occurrences(read, 3, "literal"),
     uris |-> Occurrences(read, 1, "uri") + Occurrences(read, 3, "uri"),
     errors |-> IF failed THEN <<"Validation error: ">> ELSE <<>>,
     unique_subjects |-> Distinct(read, 1),
     unique_predicates |-> Distinct(read, 2),
     unique_objects |-> Distinct(read, 3)]

\* A faulty variant of SchemaTriple: the object is compared by its string.
SchemaTripleByString(triple) ==
    LET predicate == triple[2]
        obj == triple[3]
    IN  \/ predicate = RDF_type /\ str(obj) \in {str(RDFS_Class), str(OWL_Class)}
        \/ predicate \in {RDFS_subClassOf, OWL_equivalentClass}
        \/ predicate = RDF_type /\ str(obj) \in {str(RDF_Property), str(OWL_ObjectProperty),
                                               str(OWL_DatatypeProperty),
                                               str(OWL_AnnotationProperty)}
        \/ predicate \in {RDFS_domain, RDFS_range, RDFS_subPropertyOf}

\* The if/elif chain of extract_schema for one triple.
SchemaTriple(triple) ==
    LET predicate == triple[2]
        obj == triple[3]
    IN  \/ predicate = RDF_type /\ obj \in {RDFS_Class, OWL_Class}
        \/ predicate \in {RDFS_subClassOf, OWL_equivalentClass}
        \/ predicate = RDF_type /\ obj \in {RDF_Property, OWL_ObjectProperty,
                                          OWL_DatatypeProperty, OWL_AnnotationProperty}
        \/ predicate \in {RDFS_domain, RDFS_range, RDFS_subPropertyOf}

\* RDFToRDF.extract_schema(graph)
extract_schema(graph) == {triple \in graph : SchemaTriple(triple)}

\* A faulty variant of SerializeFormat: a name of no member gives RDF/XML.
SerializeFormatXml(format_name) ==
    IF RDFFormatOf(Lower(format_name)) = ValueError THEN "RDF_XML"
    ELSE RDFFormatOf(Lower(format_name))

\* The inner try of serialize: RDFFormat(format_name.lower()), else TURTLE.
SerializeFormat(format_name) ==
    IF RDFFormatOf(Lower(format_name)) = ValueError THEN "TURTLE"
    ELSE RDFFormatOf(Lower(format_name))

\* What the engine's serializer for a token makes of a graph.
SerializedText(graph, rdflib_format) == [format |-> rdflib_format, triples |-> graph]

\* graph.serialize(destination=..., format=...): the engine raises
\* (engine_ok = FALSE) or serializes, and writes when a destination is passed.
EngineSerialize(graph, rdflib_format, destination, engine_ok) ==
    [call |-> "serialize", format |-> rdflib_format, destination |-> destination,
     ok |-> engine_ok, after |-> graph]

\* The except clause of serialize.
ConversionFailure(calls_made, cause) ==
    [calls |-> calls_made,
     out |-> Raise("RDFConversionError", <<"RDF serialization failed: ">> \o cause),
     logged |-> <<<<"Failed to serialize RDF graph: ">> \o cause>>]

\* if destination:
DestinationGiven(destination) == Truthy(destination)

\* RDFToRDF.serialize(graph, format_name, destination)
serialize(graph, format_name, destination, engine_ok) ==
    IF format_name = None
    THEN ConversionFailure(<<>>, <<"AttributeError">>)
    ELSE LET rdflib_format == get_rdflib_format(SerializeFormat(format_name))
             bind == add_common_namespaces(graph)
             call == EngineSerialize(graph, rdflib_format,
                         IF DestinationGiven(destination) THEN destination ELSE None,
                         engine_ok)
         IN  IF ~engine_ok
             THEN ConversionFailure(<<bind, call>>, <<"engine">>)
             ELSE [calls |-> <<bind, call>>,
                   out |-> IF DestinationGiven(destination)
                           THEN Return(<<"Serialized to ">> \o destination)
                           ELSE Return(SerializedText(graph, rdflib_format)),
                   logged |-> <<>>]

\* A faulty variant of replace_predicate: the new triples are added before
\* the old ones are removed.
replace_predicate_add_first(graph, old_pred, new_pred) ==
    LET to_remove == {triple \in graph : triple[2] = old_pred}
        to_add == {<<triple[1], new_pred, triple[3]>> : triple \in to_remove}
    IN  (graph \cup to_add) \ to_remove

\* The replace_predicate branch: collect, then remove, then add.
replace_predicate(graph, old_pred, new_pred) ==
    LET to_remove == {triple \in graph : triple[2] = old_pred}
        to_add == {<<triple[1], new_pred, triple[3]>> : triple \in to_remove}
    IN  (graph \ to_remove) \cup to_add

\* The body of the loop of _apply_transformations for one rule.
ApplyTransform(graph, transform) ==
    IF transform.type = "add_namespace" THEN graph
    ELSE IF transform.type = "replace_predicate"
    THEN replace_predicate(graph, URIRef(transform.old_predicate),
                           URIRef(transform.new_predicate))
    ELSE graph

\* RDFToRDF._apply_transformations(graph, transformations)
RECURSIVE apply_transformations(_, _)
apply_transformations(graph, transformations) ==
    IF transformations = <<>> THEN graph
    ELSE apply_transformations(ApplyTransform(graph, Head(transformations)),
                               Tail(transformations))

----------------------------------------------------------------------------
(* Bounds and inputs of the graph operations *)

\* The longest list of graphs handed to merge_graphs.
MaxGraphs == 2

\* The largest graph handed to extract_schema.
MaxTriples == 3

\* The longest list of rules handed to _apply_transformations.
MaxRules == 2

MergeTriples ==
    {<<URIRef("ex:a"), URIRef("ex:p"), URIRef("ex:b")>>,
     <<URIRef("ex:a"), URIRef("ex:p"), Literal("ex:b")>>,
     <<BNode("x"), URIRef("ex:q"), URIRef("ex:a")>>}

\* target_graph: None, or a graph.
Targets ==
    {[given |-> FALSE, graph |-> {}]}
      \cup {[given |-> TRUE, graph |-> g] : g \in SUBSET MergeTriples}

FilterTriples ==
    {<<URIRef("ex:a"), URIRef("ex:p"), URIRef("ex:b")>>,
     <<URIRef("ex:a"), URIRef("ex:q"), Literal("ex:b")>>,
     <<BNode("x"), URIRef("ex:p"), Literal("v")>>,
     <<URIRef("ex:b"), URIRef("ex:q"), URIRef("ex:a")>>,
     <<URIRef("ex:b"), URIRef("ex:p"), BNode("x")>>}

\* The allow-lists: None, the empty list, and lists of strings.
FilterLists ==
    {None, <<>>, <<"ex:p">>, <<"ex:a">>, <<"ex:b", "ex:p">>, <<"x", "v">>}

ValidateTriples ==
    {<<URIRef("ex:a"), URIRef("ex:p"), URIRef("ex:b")>>,
     <<URIRef("ex:a"), URIRef("ex:p"), Literal("ex:b")>>,
     <<URIRef("ex:a"), URIRef("ex:q"), URIRef("ex:a")>>,
     <<BNode("x"), URIRef("ex:p"), BNode("x")>>,
     <<BNode("x"), URIRef("ex:q"), Literal("v")>>,
     <<URIRef("ex:b"), URIRef("ex:q"), BNode("y")>>,
     <<Literal("v"), URIRef("ex:p"), URIRef("ex:b")>>}

SchemaTriples ==
    {<<URIRef("ex:C"), RDF_type, RDFS_Class>>,
     <<URIRef("ex:C"), RDF_type, OWL_Class>>,
     <<URIRef("ex:C"), RDFS_subClassOf, URIRef("ex:D")>>,
     <<URIRef("ex:C"), OWL_equivalentClass, BNode("x")>>,
     <<URIRef("ex:p"), RDF_type, RDF_Property>>,
     <<URIRef("ex:p"), RDF_type, OWL_ObjectProperty>>,
     <<URIRef("ex:p"), RDF_type, OWL_DatatypeProperty>>,
     <<URIRef("ex:p"), RDF_type, OWL_AnnotationProperty>>,
     <<URIRef("ex:p"), RDFS_domain, URIRef("ex:C")>>,
     <<URIRef("ex:p"), RDFS_range, Literal("ex:D")>>,
     <<URIRef("ex:p"), RDFS_subPropertyOf, URIRef("ex:q")>>,
     <<URIRef("ex:a"), RDF_type, URIRef("ex:C")>>,
     <<URIRef("ex:a"), RDF_type, Literal("rdfs:Class")>>,
     <<URIRef("ex:a"), URIRef("ex:p"), RDFS_Class>>,
     <<URIRef("ex:a"), URIRef("rdfs:label"), Literal("a")>>}

SchemaGraphs == {g \in SUBSET SchemaTriples : Cardinality(g) <= MaxTriples}

SerializeTriples ==
    {<<URIRef("ex:a"), URIRef("ex:p"), Literal("v")>>,
     <<BNode("x"), URIRef("ex:p"), URIRef("ex:a")>>}

\* The format names: None, the values of the members in some spellings, and
\* names that are no value of a member.
FormatNames ==
    {None, <<>>, <<"TURTLE">>, <<"N_Triples">>, <<"ttl">>, <<"xml">>, <<"nt">>,
     <<"json-ld">>} \cup {<<RDFFormatValue[f]>> : f \in RDFFormat}

Destinations == {None, <<>>, <<"out", ".ttl">>, <<"dir", "/", "out", ".nq">>}

TransformTriples ==
    {<<URIRef("ex:a"), URIRef("ex:p"), URIRef("ex:b")>>,
     <<URIRef("ex:a"), URIRef("ex:q"), URIRef("ex:b")>>,
     <<URIRef("ex:a"), URIRef("ex:r"), URIRef("ex:b")>>,
     <<URIRef("ex:b"), URIRef("ex:p"), Literal("v")>>,
     <<URIRef("ex:b"), URIRef("ex:q"), Literal("v")>>}

ReplaceRule(old, new) ==
    [type |-> "replace_predicate", old_predicate |-> old, new_predicate |-> new]

\* The rules: replacements, a prefix binding, and rules of no known kind.
Rules ==
    {ReplaceRule("ex:p", "ex:q"), ReplaceRule("ex:q", "ex:p"),
     ReplaceRule("ex:p", "ex:p"), ReplaceRule("ex:q", "ex:r"),
     ReplaceRule("ex:s", "ex:p"),
     [type |-> "add_namespace", prefix |-> "ex", uri |-> "http://example.org/"],
     [type |-> "drop_literals"],
     [type |-> "REPLACE_PREDICATE", old_predicate |-> "ex:p", new_predicate |-> "ex:q"]}

----------------------------------------------------------------------------
(* The graph operations *)

\* RDFToRDF.merge_graphs(graphs, target_graph)
Merge ==
    /\ op = "idle"
    /\ \E graphs \in SeqsUpTo(SUBSET MergeTriples, MaxGraphs), target_graph \in Targets :
        /\ op' = "merge_graphs"
        /\ arg' = [graphs |-> graphs, target_graph |-> target_graph]
        /\ calls' = <<add_common_namespaces(
                        IF target_graph.given THEN target_graph.graph ELSE {})>>
        /\ ret' = Return(merge_graphs(graphs, target_graph))
        /\ logged' = <<>>
        /\ tried' = <<>>
        /\ registry' = registry
        /\ heap' = heap

\* RDFToRDF.filter_graph(graph, predicate_filter, subject_filter, object_filter)
Filter ==
    /\ op = "idle"
    /\ \E graph \in SUBSET FilterTriples, predicate_filter \in FilterLists,
          subject_filter \in FilterLists, object_filter \in FilterLists :
        /\ op' = "filter_graph"
        /\ arg' = [graph |-> graph, predicate_filter |-> predicate_filter,
                   subject_filter |-> subject_filter, object_filter |-> object_filter]
        /\ calls' = <<add_common_namespaces({})>>
        /\ ret' = Return(filter_graph(graph, predicate_filter, subject_filter,
                                      object_filter))
        /\ logged' = <<>>
        /\ tried' = <<>>
        /\ registry' = registry
        /\ heap' = heap

\* RDFToRDF.validate_graph(graph); the iteration over the graph ends, or
\* raises after the triples of read.
Validate ==
    /\ op = "idle"
    /\ \E graph \in SUBSET ValidateTriples, failed \in BOOLEAN :
        \E read \in (IF failed THEN SUBSET graph ELSE {graph}) :
            /\ op' = "validate_graph"
            /\ arg' = [graph |-> graph, read |-> read, failed |-> failed]
            /\ calls' = <<>>
            /\ ret' = Return(validate_graph(graph, read, failed))
            /\ logged' = <<>>
            /\ tried' = <<>>
            /\ registry' = registry
            /\ heap' = heap

\* RDFToRDF.extract_schema(graph)
ExtractSchema ==
    /\ op = "idle"
    /\ \E graph \in SchemaGraphs :
        /\ op' = "extract_schema"
        /\ arg' = [graph |-> graph]
        /\ calls' = <<add_common_namespaces({})>>
        /\ ret' = Return(extract_schema(graph))
        /\ logged' = <<>>
        /\ tried' = <<>>
        /\ registry' = registry
        /\ heap' = heap

\* RDFToRDF.serialize(graph, format_name, destination)
Serialize ==
    /\ op = "idle"
    /\ \E graph \in SUBSET SerializeTriples, format_name \in FormatNames,
          destination \in Destinations, engine_ok \in BOOLEAN :
        LET r == serialize(graph, format_name, destination, engine_ok)
        IN  /\ op' = "serialize"
            /\ arg' = [graph |-> graph, format_name |-> format_name,
                       destination |-> destination, engine_ok |-> engine_ok]
            /\ calls' = r.calls
            /\ ret' = r.out
            /\ logged' = r.logged
            /\ tried' = <<>>
            /\ registry' = registry
            /\ heap' = heap

\* RDFToRDF._apply_transformations(graph, transformations)
Transform ==
    /\ op = "idle"
    /\ \E graph \in SUBSET TransformTriples,
          transformations \in SeqsUpTo(Rules, MaxRules) :
        /\ op' = "apply_transformations"
        /\ arg' = [graph |-> graph, transformations |-> transformations]
        /\ calls' = <<>>
        /\ ret' = Return(apply_transformations(graph, transformations))
        /\ logged' = <<>>
        /\ tried' = <<>>
        /\ registry' = registry
        /\ heap' = heap

NextGraph ==
    Merge \/ Filter \/ Validate \/ ExtractSchema \/ Serialize \/ Transform \/ Done

SpecGraph == Init /\ [][NextGraph]_vars

----------------------------------------------------------------------------
(* Properties of the graph operations *)

\* The triples the target of a merge held before the call.
PriorTriples == IF arg.target_graph.given THEN arg.target_graph.graph ELSE {}

\* The sum of the lengths of the graphs of a list.
RECURSIVE SumLen(_)
SumLen(graphs) ==
    IF graphs = <<>> THEN 0 ELSE Cardinality(Head(graphs)) + SumLen(Tail(graphs))

\* The orders in which a list of n graphs can be handed over.
Orders(n) == {f \in [1..n -> 1..n] : \A i, j \in 1..n : f[i] = f[j] => i = j}

\* C12: merge_graphs returns the union of the triples of all graphs of the
\* list and of the prior triples of the target; its length is the sum of
\* the lengths when these are pairwise disjoint and at most the sum
\* otherwise; the list in any other order gives the same triples.
C12_MergeIsUnion ==
    op = "merge_graphs" =>
        LET graphs == arg.graphs
            n == Len(graphs)
            sum == SumLen(graphs) + Cardinality(PriorTriples)
            disjoint == /\ \A i, j \in 1..n : i /= j => graphs[i] \cap graphs[j] = {}
                        /\ \A i \in 1..n : graphs[i] \cap PriorTriples = {}
        IN  /\ ret.kind = "return"
            /\ ret.value = PriorTriples \cup UNION {graphs[i] : i \in 1..n}
            /\ disjoint => Cardinality(ret.value) = sum
            /\ Cardinality(ret.value) <= sum
            /\ \A f \in Orders(n) :
                  merge_graphs([i \in 1..n |-> graphs[f[i]]], arg.target_graph)
                      = ret.value

\* Two different graphs that share a triple, merged into a target that held
\* a triple of its own.
C12_Witness ==
    /\ op = "merge_graphs"
    /\ Len(arg.graphs) = 2
    /\ arg.graphs[1] /= arg.graphs[2]
    /\ arg.graphs[1] \cap arg.graphs[2] /= {}
    /\ arg.target_graph.given
    /\ arg.target_graph.graph \ (arg.graphs[1] \cup arg.graphs[2]) /= {}
    /\ Cardinality(ret.value) = 3

\* C13 as claimed: filter_graph returns the triples of the graph whose
\* component's string is in the allow-list, for every allow-list that is a
\* list, the empty list included; an allow-list that is None constrains
\* nothing.
C13_EveryListConstrains ==
    op = "filter_graph" =>
        ret.value =
            {t \in arg.graph :
                /\ arg.subject_filter /= None => InList(t[1].str, arg.subject_filter)
                /\ arg.predicate_filter /= None => InList(t[2].str, arg.predicate_filter)
                /\ arg.object_filter /= None => InList(t[3].str, arg.object_filter)}

\* C14: validate_graph reports the number of triples of the graph as
\* total_triples; when the read of the graph does not fail it reports the
\* numbers of distinct subjects, predicates and objects of the graph and an
\* empty list of errors.
C14_ValidateCounts ==
    op = "validate_graph" =>
        /\ ret.kind = "return"
        /\ ret.value.total_triples = Cardinality(arg.graph)
        /\ ~arg.failed =>
              /\ ret.value.unique_subjects
                    = Cardinality({s \in {t[1] : t \in ValidateTriples} :
                                      \E t \in arg.graph : t[1] = s})
              /\ ret.value.unique_predicates
                    = Cardinality({p \in {t[2] : t \in ValidateTriples} :
                                      \E t \in arg.graph : t[2] = p})
              /\ ret.value.unique_objects
                    = Cardinality({o \in {t[3] : t \in ValidateTriples} :
                                      \E t \in arg.graph : t[3] = o})
              /\ ret.value.errors = <<>>

\* A graph read without error in which a URI and a literal with the same
\* string are both objects.
C14_Witness ==
    /\ op = "validate_graph"
    /\ ~arg.failed
    /\ <<URIRef("ex:a"), URIRef("ex:p"), URIRef("ex:b")>> \in arg.graph
    /\ <<URIRef("ex:a"), URIRef("ex:p"), Literal("ex:b")>> \in arg.graph
    /\ Cardinality(arg.graph) = 3
    /\ ret.value.unique_objects = 3

\* The positions of a graph: one for each triple and each of the places.
Positions(graph, places) == {<<t, place>> : t \in graph, place \in places}

\* The positions that hold a term of a kind.
Holding(positions, kind) == {x \in positions : x[1][x[2]].kind = kind}

\* C15 as claimed: the three counters count the subject, predicate and
\* object positions of the graph, each once, so that their sum is the number
\* of all positions of the graph.
C15_AllPositions ==
    (op = "validate_graph" /\ ~arg.failed) =>
        LET all == Positions(arg.graph, {1, 2, 3})
        IN  /\ ret.value.blank_nodes = Cardinality(Holding(all, "bnode"))
            /\ ret.value.literals = Cardinality(Holding(all, "literal"))
            /\ ret.value.uris = Cardinality(Holding(all, "uri"))
            /\ ret.value.blank_nodes + ret.value.literals + ret.value.uris
                  = 3 * Cardinality(arg.graph)

\* C15, amended: the counters count, each once and without deduplication,
\* the blank nodes and URIs at subject and object positions and the literals
\* at object positions; predicate positions are not counted, nor is a
\* literal at a subject position; the sum is twice the number of triples
\* less the triples whose subject is a literal.
C15_NodePositions ==
    (op = "validate_graph" /\ ~arg.failed) =>
        LET nodes == Positions(arg.graph, {1, 3})
        IN  /\ ret.value.blank_nodes = Cardinality(Holding(nodes, "bnode"))
            /\ ret.value.uris = Cardinality(Holding(nodes, "uri"))
            /\ ret.value.literals
                  = Cardinality(Holding(Positions(arg.graph, {3}), "literal"))
            /\ ret.value.blank_nodes + ret.value.literals + ret.value.uris
                  = 2 * Cardinality(arg.graph)
                      - Cardinality(Holding(Positions(arg.graph, {1}), "literal"))

\* A graph in which one blank node is the subject of two triples and the
\* object of one: it is counted three times.
C15_Witness ==
    /\ op = "validate_graph"
    /\ ~arg.failed
    /\ arg.graph = {<<BNode("x"), URIRef("ex:p"), BNode("x")>>,
                    <<BNode("x"), URIRef("ex:q"), Literal("v")>>}
    /\ ret.value.blank_nodes = 3
    /\ ret.value.literals = 1
    /\ ret.value.uris = 0

\* The predicates that make a triple a schema triple, whatever its object.
SchemaPredicates ==
    {URIRef("rdfs:subClassOf"), URIRef("owl:equivalentClass"),
     URIRef("rdfs:domain"), URIRef("rdfs:range"), URIRef("rdfs:subPropertyOf")}

\* The objects that make an rdf:type triple a schema triple.
SchemaKinds ==
    {URIRef("rdfs:Class"), URIRef("owl:Class"), URIRef("rdf:Property"),
     URIRef("owl:ObjectProperty"), URIRef("owl:DatatypeProperty"),
     URIRef("owl:AnnotationProperty")}

\* C16: extract_schema returns the triples of the graph that match the
\* schema patterns and no other triple; applied to its own result it returns
\* that result.
C16_SchemaOnly ==
    op = "extract_schema" =>
        /\ ret.kind = "return"
        /\ ret.value \subseteq arg.graph
        /\ \A t \in arg.graph :
              t \in ret.value <=>
                  \/ t[2] \in SchemaPredicates
                  \/ t[2] = URIRef("rdf:type") /\ t[3] \in SchemaKinds
        /\ extract_schema(ret.value) = ret.value

\* A graph with a subClassOf triple, a data triple and an rdf:type triple
\* whose object is a literal that reads like a class: only the first is kept.
C16_Witness ==
    /\ op = "extract_schema"
    /\ arg.graph = {<<URIRef("ex:C"), RDFS_subClassOf, URIRef("ex:D")>>,
                    <<URIRef("ex:a"), URIRef("rdfs:label"), Literal("a")>>,
                    <<URIRef("ex:a"), RDF_type, Literal("rdfs:Class")>>}
    /\ ret.value = {<<URIRef("ex:C"), RDFS_subClassOf, URIRef("ex:D")>>}

\* The engine token serialize is to use for each format name of FormatNames
\* other than None: the token of the member the name is a value of, in any
\* case, where xml is the token of the members without an entry in the
\* token table; turtle for a name that is no value of a member.
TokenForName ==
    (<<"rdf_xml">> :> "xml") @@ (<<"turtle">> :> "turtle") @@ (<<"TURTLE">> :> "turtle")
      @@ (<<"n_triples">> :> "nt") @@ (<<"N_Triples">> :> "nt")
      @@ (<<"json_ld">> :> "json-ld") @@ (<<"trig">> :> "trig")
      @@ (<<"n_quads">> :> "nquads") @@ (<<"trix">> :> "trix")
      @@ (<<"rdf_thrift">> :> "xml") @@ (<<"owl_xml">> :> "xml")
      @@ (<<"default">> :> "xml")
      @@ (<<>> :> "turtle") @@ (<<"ttl">> :> "turtle") @@ (<<"xml">> :> "turtle")
      @@ (<<"nt">> :> "turtle") @@ (<<"json-ld">> :> "turtle")

Rewritten(graph, rule) ==
    IF rule.type = "replace_predicate"
    THEN {<<t[1], IF t[2] = URIRef(rule.old_predicate)
                  THEN URIRef(rule.new_predicate) ELSE t[2], t[3]>> : t \in graph}
    ELSE graph

\* C18: _apply_transformations applies the rules in the order of the list
\* and raises nothing.  With before the graph as the rules ahead of the last
\* one left it: after a last rule replace_predicate(old, new) every triple
\* (s, old, o) of before is there as (s, new, o), none with the predicate
\* old is left when old /= new, the graph is as before when old = new, the
\* triples with other predicates are as before, and there are no more
\* triples than before; after a last rule of another kind the graph is as
\* before.
C18_Transformations ==
    (op = "apply_transformations" /\ arg.transformations /= <<>>) =>
        LET n == Len(arg.transformations)
            rule == arg.transformations[n]
            before == apply_transformations(arg.graph, SubSeq(arg.transformations, 1, n - 1))
            old == URIRef(rule.old_predicate)
            new == URIRef(rule.new_predicate)
        IN  /\ ret.kind = "return"
            /\ ret.value = Rewritten(before, rule)
            /\ n = 1 => before = arg.graph
            /\ rule.type = "replace_predicate" =>
                  /\ \A t \in before : t[2] = old => <<t[1], new, t[3]>> \in ret.value
                  /\ old /= new => \A t \in ret.value : t[2] /= old
                  /\ old = new => ret.value = before
                  /\ \A t \in before : t[2] /= old => t \in ret.value
                  /\ \A t \in ret.value : t[2] /= new => t \in before
                  /\ Cardinality(ret.value) <= Cardinality(before)
            /\ rule.type /= "replace_predicate" => ret.value = before

\* Two replacements whose order matters, on a graph where the first makes
\* two triples one.
C18_Witness ==
    /\ op = "apply_transformations"
    /\ arg.transformations = <<ReplaceRule("ex:p", "ex:q"), ReplaceRule("ex:q", "ex:r")>>
    /\ arg.graph = {<<URIRef("ex:a"), URIRef("ex:p"), URIRef("ex:b")>>,
                    <<URIRef("ex:a"), URIRef("ex:q"), URIRef("ex:b")>>}
    /\ ret.value = {<<URIRef("ex:a"), URIRef("ex:r"), URIRef("ex:b")>>}
    /\ apply_transformations(arg.graph,
           <<ReplaceRule("ex:q", "ex:r"), ReplaceRule("ex:p", "ex:q")>>) /= ret.value

----------------------------------------------------------------------------
(* sparql_processor.py *)

\* A query text is a sequence of lexemes, like every text: keywords, blanks
\* (" ", "\t", "\n"), prefix names with their colon ("rdf:"), IRI references
\* and the rest.  No lexeme other than the keyword itself ends with the
\* letters of PREFIX, and none other than a name with its colon ends with
\* one, so that 'PREFIX RDF:' occurs in the upper-cased text exactly where
\* the three lexemes "PREFIX", " ", "RDF:" follow one another.

\* str.upper() on one lexeme.
UpperLex(l) ==
    CASE l = "prefix"  -> "PREFIX"
      [] l = "Prefix"  -> "PREFIX"
      [] l = "select"  -> "SELECT"
      [] l = "ask"     -> "ASK"
      [] l = "describe" -> "DESCRIBE"
      [] l = "rdf:"    -> "RDF:"
      [] l = "rdfs:"   -> "RDFS:"
      [] l = "xsd:"    -> "XSD:"
      [] l = "owl:"    -> "OWL:"
      [] l = "foaf:"   -> "FOAF:"
      [] l = "Foaf:"   -> "FOAF:"
      [] l = "dc:"     -> "DC:"
      [] l = "dcterms:" -> "DCTERMS:"
      [] l = "skos:"   -> "SKOS:"
      [] l = "ex:"     -> "EX:"
      [] l = "ex2:"    -> "EX2:"
      [] l = "my:"     -> "MY:"
      [] l = "<urn:x>" -> "<URN:X>"
      [] OTHER         -> l

\* str.upper()
Upper(s) == [i \in DOMAIN s |-> UpperLex(s[i])]

\* pattern in text
Contains(text, pattern) ==
    \E i \in 0..(Len(text) - Len(pattern)) :
        SubSeq(text, i + 1, i + Len(pattern)) = pattern

\* self.default_prefixes, in the order of the dictionary.
DefaultPrefixNames ==
    <<"rdf", "rdfs", "xsd", "owl", "foaf", "dc", "dcterms", "skos", "ex">>

\* The URI of each default prefix, as an IRI reference.
DefaultPrefixUri ==
    [rdf |-> "<http://www.w3.org/1999/02/22-rdf-syntax-ns#>",
     rdfs |-> "<http://www.w3.org/2000/01/rdf-schema#>",
     xsd |-> "<http://www.w3.org/2001/XMLSchema#>",
     owl |-> "<http://www.w3.org/2002/07/owl#>",
     foaf |-> "<http://xmlns.com/foaf/0.1/>",
     dc |-> "<http://purl.org/dc/elements/1.1/>",
     dcterms |-> "<http://purl.org/dc/terms/>",
     skos |-> "<http://www.w3.org/2004/02/skos/core#>",
     ex |-> "<http://example.org/>"]

\* The lexeme of a prefix name followed by its colon.
NameColon ==
    [rdf |-> "rdf:", rdfs |-> "rdfs:", xsd |-> "xsd:", owl |-> "owl:",
     foaf |-> "foaf:", dc |-> "dc:", dcterms |-> "dcterms:", skos |-> "skos:",
     ex |-> "ex:", my |-> "my:"]

\* f"PREFIX {prefix.upper()}:"
PrefixPattern(prefix) == <<"PREFIX", " ", UpperLex(NameColon[prefix])>>

\* f"PREFIX {prefix}: <{uri}>"
PrefixDeclaration(prefix, uri) == <<"PREFIX", " ", NameColon[prefix], " ", uri>>

\* A faulty variant of Undeclared: the pattern is looked up in the text as
\* it was written.
UndeclaredCaseSensitive(prefix, sparql_query) ==
    ~Contains(sparql_query, PrefixPattern(prefix))

\* prefix_pattern not in query_upper
Undeclared(prefix, sparql_query) ==
    ~Contains(Upper(sparql_query), PrefixPattern(prefix))

\* The declarations one loop of _add_default_prefixes appends, for the
\* prefixes of a dictionary in its order.
RECURSIVE Declarations(_, _, _)
Declarations(prefixes, uris, sparql_query) ==
    IF prefixes = <<>> THEN <<>>
    ELSE (IF Undeclared(Head(prefixes), sparql_query)
          THEN <<PrefixDeclaration(Head(prefixes), uris[Head(prefixes)])>>
          ELSE <<>>)
         \o Declarations(Tail(prefixes), uris, sparql_query)

\* '\n'.join(lines)
RECURSIVE JoinLines(_)
JoinLines(lines) ==
    IF lines = <<>> THEN <<>>
    ELSE IF Len(lines) = 1 THEN Head(lines)
    ELSE Head(lines) \o <<"\n">> \o JoinLines(Tail(lines))

\* The URI a configuration gives for each prefix it names.
ConfigUri(config_prefixes) ==
    [name \in {config_prefixes[i] : i \in DOMAIN config_prefixes} |-> "<urn:x>"]

\* SPARQLProcessor._add_default_prefixes(sparql_query), for a processor whose
\* configuration names the prefixes config_prefixes.
add_default_prefixes(sparql_query, config_prefixes) ==
    LET prefix_declarations ==
            Declarations(DefaultPrefixNames, DefaultPrefixUri, sparql_query)
              \o Declarations(config_prefixes, ConfigUri(config_prefixes), sparql_query)
    IN  IF prefix_declarations /= <<>>
        THEN JoinLines(prefix_declarations) \o <<"\n", "\n">> \o sparql_query
        ELSE sparql_query

\* The blanks str.strip() removes.
Whitespace == {" ", "\t", "\n"}

\* str.strip() on a query text.
RECURSIVE StripWs(_)
StripWs(s) ==
    IF s = <<>> THEN s
    ELSE IF Head(s) \in Whitespace THEN StripWs(Tail(s))
    ELSE IF s[Len(s)] \in Whitespace THEN StripWs(SubSeq(s, 1, Len(s) - 1))
    ELSE s

\* SPARQLProcessor._get_query_type(sparql_query)
get_query_type(sparql_query) ==
    LET query_upper == StripWs(Upper(sparql_query))
    IN  IF query_upper /= <<>>
           /\ query_upper[1] \in {"SELECT", "CONSTRUCT", "ASK", "DESCRIBE"}
        THEN query_upper[1]
        ELSE "UNKNOWN"

\* The engine's side of a query is the environment.  A call names, beside
\* its arguments, the step of the engine that raises when the call gets to
\* it (fault): the preparation of the query, its execution, the engine's own
\* serializer of results (native), the reading of the results (reshape), the
\* iteration over them by the caller (iterate), the serializer of graphs
\* (serialize); or none.

\* One step of a call, for the log: its name, whether it returned, and what
\* it was handed.
Step(name, ok, detail) == [step |-> name, ok |-> ok, detail |-> detail]

\* isinstance(source, (Graph, Dataset))
IsGraph(source) == source.kind \in {"graph", "dataset"}

\* What the engine answers for a prepared query on a target.
Results(target, prepared_query, bindings) ==
    [target |-> target, query |-> prepared_query, bindings |-> bindings]

\* A faulty variant of WrapExecutionError: the exception is raised as it came.
WrapExecutionErrorBare(r, log_prefix, msg_prefix) == r

\* The except clause of the operations of the processor: log, and raise
\* SPARQLExecutionError with the message of the cause.
WrapExecutionError(r, log_prefix, msg_prefix) ==
    IF r.out.kind = "raise"
    THEN [calls |-> r.calls,
          out |-> Raise("SPARQLExecutionError", msg_prefix \o r.out.msg),
          logged |-> Append(r.logged, log_prefix \o r.out.msg)]
    ELSE r

\* The engine raised at a step.
EngineRaise(steps, log, exc, name) ==
    [calls |-> Append(steps, Step(name, FALSE, <<>>)),
     out |-> Raise(exc, <<name>>), logged |-> log]

\* The formats of _format_results that go to the engine's serializer first.
NativeFormats == {"json", "xml", "csv"}

\* SPARQLProcessor._format_results(results, format_name)
format_results(results, format_name, fault, steps, log) ==
    IF format_name = "raw" \/ format_name = "graph"
    THEN [calls |-> steps, out |-> Return([shape |-> format_name, results |-> results]),
          logged |-> log]
    ELSE IF fault = "reshape"
    THEN EngineRaise(IF format_name \in NativeFormats
                     THEN Append(steps, Step("native", FALSE, format_name))
                     ELSE steps,
                     log, "Exception", "reshape")
    ELSE IF format_name \in NativeFormats /\ fault /= "native"
    THEN [calls |-> Append(steps, Step("native", TRUE, format_name)),
          out |-> Return([shape |-> format_name, results |-> results]),
          logged |-> log]
    ELSE [calls |-> (IF format_name \in NativeFormats
                     THEN Append(steps, Step("native", FALSE, format_name))
                     ELSE steps)
                    \o <<Step("reshape", TRUE, format_name)>>,
          out |-> Return([shape |-> IF format_name \in {"bool", "json", "xml", "csv", "table"}
                                    THEN format_name ELSE "list",
                          results |-> results]),
          logged |-> log]

\* The try block of query, after the source is loaded.
QueryLoaded(target, sparql_query, result_format, bindings, fault, config_prefixes, steps, log) ==
    LET bound == Append(steps, Step("bind", TRUE, <<>>))
        full_query == add_default_prefixes(sparql_query, config_prefixes)
        prepared == Append(bound, Step("prepareQuery", TRUE, full_query))
    IN  IF fault = "prepare"
        THEN [calls |-> Append(bound, Step("prepareQuery", FALSE, full_query)),
              out |-> Raise("ParseException", <<"prepareQuery">>), logged |-> log]
        ELSE IF fault = "execute" THEN EngineRaise(prepared, log, "Exception", "query")
        ELSE format_results(Results(target, full_query, bindings), result_format, fault,
                            Append(prepared, Step("query", TRUE, bindings)), log)

\* The try block of query.
QueryBody(source, sparql_query, result_format, bindings, fault, config_prefixes, load) ==
    IF IsGraph(source)
    THEN QueryLoaded(source.triples, sparql_query, result_format, bindings, fault,
                     config_prefixes, <<>>, <<>>)
    ELSE IF load.out.kind = "raise"
    THEN [calls |-> <<Step("parse", FALSE, load.calls)>>, out |-> load.out,
          logged |-> load.logged]
    ELSE QueryLoaded(load.out.value, sparql_query, result_format, bindings, fault,
                     config_prefixes, <<Step("parse", TRUE, load.calls)>>, load.logged)

\* What parse is asked for and answers, when the source is not a graph.
LoadOf(source) ==
    IF IsGraph(source) THEN [calls |-> <<>>, out |-> Return({}), logged |-> <<>>]
    ELSE parse(source, None, None)

\* SPARQLProcessor.query(source, sparql_query, result_format, bindings), with
\* what parse answers for the source.
query(source, sparql_query, result_format, bindings, fault, config_prefixes, load) ==
    WrapExecutionError(
        QueryBody(source, sparql_query, result_format, bindings, fault, config_prefixes,
                  load),
        <<"Failed to execute SPARQL query: ">>, <<"SPARQL execution failed: ">>)

\* The try block of query_multiple, after parse_to_dataset.
QueryDataset(loaded, sparql_query, result_format, fault, r) ==
    IF loaded.out.kind = "raise"
    THEN [calls |-> <<Step("parse_to_dataset", FALSE, loaded.tried)>>,
          out |-> loaded.out, logged |-> loaded.logged]
    ELSE [calls |-> <<Step("parse_to_dataset", TRUE, loaded.tried)>> \o r.calls,
          out |-> r.out, logged |-> loaded.logged \o r.logged]

\* The dataset parse_to_dataset returned, as the source of a query.
DatasetOf(loaded) ==
    [kind |-> "dataset",
     triples |-> IF loaded.out.kind = "return" THEN loaded.out.value ELSE <<>>]

\* SPARQLProcessor.query_multiple(sources, sparql_query, result_format), with
\* what parse_to_dataset answers for the sources.
query_multiple(loaded, sparql_query, result_format, fault) ==
    WrapExecutionError(
        QueryDataset(loaded, sparql_query, result_format, fault,
                     query(DatasetOf(loaded), sparql_query, result_format, FALSE,
                           fault, <<>>, LoadOf(DatasetOf(loaded)))),
        <<"Failed to execute SPARQL query on multiple sources: ">>,
        <<"Multi-source SPARQL execution failed: ">>)

\* The part of construct_query and describe_query after the query: the
\* result is made a graph, by iteration, and serialized.
SerializeResult(r, output_format, fault, bind) ==
    IF r.out.kind = "raise" THEN r
    ELSE IF fault = "iterate" THEN EngineRaise(r.calls, r.logged, "Exception", "iterate")
    ELSE LET actual_graph == r.out.value.results.target
             ser == serialize(actual_graph, output_format, None, fault /= "serialize")
         IN  [calls |-> r.calls \o (IF bind THEN <<Step("bind", TRUE, <<>>)>> ELSE <<>>)
                         \o <<Step("serialize", ser.out.kind = "return", ser.calls)>>,
              out |-> ser.out,
              logged |-> r.logged \o ser.logged]

\* SPARQLProcessor.construct_query(source, construct_query, output_format)
construct_query(source, sparql_query, output_format, fault, load) ==
    WrapExecutionError(
        SerializeResult(query(source, sparql_query, "graph", FALSE, fault, <<>>, load),
                        output_format, fault, TRUE),
        <<"Failed to execute CONSTRUCT query: ">>, <<"CONSTRUCT query failed: ">>)

\* SPARQLProcessor.ask_query(source, ask_query)
ask_query(source, sparql_query, fault, load) ==
    WrapExecutionError(
        query(source, sparql_query, "bool", FALSE, fault, <<>>, load),
        <<"Failed to execute ASK query: ">>, <<"ASK query failed: ">>)

\* SPARQLProcessor.describe_query(source, describe_query, output_format)
describe_query(source, sparql_query, output_format, fault, load) ==
    WrapExecutionError(
        SerializeResult(query(source, sparql_query, "graph", FALSE, fault, <<>>, load),
                        output_format, fault, FALSE),
        <<"Failed to execute DESCRIBE query: ">>, <<"DESCRIBE query failed: ">>)

\* The part of get_query_statistics after the query: the results are counted.
CountResults(r, sparql_query, fault) ==
    IF r.out.kind = "raise" THEN r
    ELSE IF fault = "iterate" THEN EngineRaise(r.calls, r.logged, "Exception", "iterate")
    ELSE [calls |-> Append(r.calls, Step("iterate", TRUE, <<>>)),
          out |-> Return([query_type |-> get_query_type(sparql_query),
                          counted |-> r.out.value.results]),
          logged |-> r.logged]

\* SPARQLProcessor.get_query_statistics(source, sparql_query)
get_query_statistics(source, sparql_query, fault, load) ==
    WrapExecutionError(
        CountResults(query(source, sparql_query, "raw", FALSE, fault, <<>>, load),
                     sparql_query, fault),
        <<"Failed to get query statistics: ">>, <<"Query statistics failed: ">>)

\* The part of a lexeme ahead of its first colon, for the lexemes that have
\* one; the empty string marks a lexeme without a colon.
BeforeColon(l) ==
    CASE l = "rdf:"    -> "rdf"
      [] l = "rdfs:"   -> "rdfs"
      [] l = "RDFS:"   -> "RDFS"
      [] l = "xsd:"    -> "xsd"
      [] l = "owl:"    -> "owl"
      [] l = "foaf:"   -> "foaf"
      [] l = "Foaf:"   -> "Foaf"
      [] l = "dc:"     -> "dc"
      [] l = "dcterms:" -> "dcterms"
      [] l = "skos:"   -> "skos"
      [] l = "ex:"     -> "ex"
      [] l = "ex2:"    -> "ex2"
      [] l = "my:"     -> "my"
      [] l = "<urn:x>" -> "<urn"
      [] OTHER         -> ""

\* The part of a lexeme after its first colon.
AfterColon(l) == IF l = "<urn:x>" THEN "x>" ELSE ""

\* str.strip('<>') on the text of an IRI reference.
StripAngles(s) ==
    IF s = <<"<urn:x>">> THEN <<"urn:x">>
    ELSE IF s = <<"x>">> THEN <<"x">>
    ELSE s

\* sparql_query.split('\n')
RECURSIVE SplitLines(_)
SplitLines(s) ==
    IF ~HasLex(s, "\n") THEN <<s>>
    ELSE LET i == CHOOSE k \in DOMAIN s :
                      s[k] = "\n" /\ \A j \in 1..(k - 1) : s[j] /= "\n"
         IN  <<SubSeq(s, 1, i - 1)>> \o SplitLines(SubSeq(s, i + 1, Len(s)))

\* parts[0].split()[-1]: the last run of lexemes that are no blanks.
RECURSIVE LastToken(_)
LastToken(s) ==
    IF s = <<>> \/ s[Len(s)] \in Whitespace THEN <<>>
    ELSE Append(LastToken(SubSeq(s, 1, Len(s) - 1)), s[Len(s)])

\* What one line adds to the dictionary of _extract_prefixes: nothing, or
\* one prefix with its URI.
LinePrefix(raw_line) ==
    LET line == StripWs(raw_line)
        colons == {k \in DOMAIN line : BeforeColon(line[k]) /= ""}
    IN  IF line = <<>> \/ UpperLex(line[1]) /= "PREFIX" \/ colons = {}
        THEN <<>>
        ELSE LET i == CHOOSE k \in colons : \A j \in colons : k <= j
                 head == Append(SubSeq(line, 1, i - 1), BeforeColon(line[i]))
                 rest == (IF AfterColon(line[i]) = "" THEN <<>>
                          ELSE <<AfterColon(line[i])>>)
                           \o SubSeq(line, i + 1, Len(line))
             IN  <<[prefix |-> LastToken(head), uri |-> StripAngles(StripWs(rest))]>>

\* The loop of _extract_prefixes: a later line replaces what an earlier one
\* gave for the same prefix.
RECURSIVE PrefixLoop(_, _)
PrefixLoop(lines, prefixes) ==
    IF lines = <<>> THEN prefixes
    ELSE LET found == LinePrefix(Head(lines))
         IN  PrefixLoop(Tail(lines),
                        IF found = <<>> THEN prefixes
                        ELSE (found[1].prefix :> found[1].uri) @@ prefixes)

\* SPARQLProcessor._extract_prefixes(sparql_query): the dictionary, as a
\* function from the prefixes to their URIs.
extract_prefixes(sparql_query) == PrefixLoop(SplitLines(sparql_query), <<>>)

\* The result validate_query starts from.
ValidationStart ==
    [valid |-> FALSE, query_type |-> None, prefixes |-> <<>>, errors |-> <<>>]

\* A faulty variant of ValidationFailure: the failure is raised to the caller.
ValidationFailureRaised(steps, exc, msg) ==
    [calls |-> steps, out |-> Raise(exc, msg), logged |-> <<>>]

\* The except clause of validate_query: the message is appended to the
\* errors, a warning is logged, the result is returned.
ValidationFailure(steps, exc, msg) ==
    [calls |-> steps,
     out |-> Return([ValidationStart EXCEPT !.errors = Append(@, msg)]),
     logged |-> <<<<"Query validation failed: ">> \o msg>>]

\* SPARQLProcessor.validate_query(sparql_query); what is handed over may be
\* None, which has no upper().
validate_query(sparql_query, fault, config_prefixes) ==
    IF sparql_query = None
    THEN ValidationFailure(<<>>, "AttributeError", <<"upper">>)
    ELSE LET full_query == add_default_prefixes(sparql_query, config_prefixes)
         IN  IF fault = "prepare"
             THEN ValidationFailure(<<Step("prepareQuery", FALSE, full_query)>>,
                                    "ParseException", <<"prepareQuery">>)
             ELSE [calls |-> <<Step("prepareQuery", TRUE, full_query)>>,
                   out |-> Return([ValidationStart EXCEPT
                                       !.valid = TRUE,
                                       !.query_type = <<get_query_type(sparql_query)>>,
                                       !.prefixes = extract_prefixes(sparql_query)]),
                   logged |-> <<>>]

\* The results of the engine, as _format_results reads them.  A result has
\* a type; a SELECT result has its declared variables (vars) and a sequence
\* of bindings, each a function from the names of the variables it binds to
\* their values; an ASK result has its answer and a CONSTRUCT or DESCRIBE
\* result its graph, and neither has variables (vars is None).  Iterating
\* over a result gives its bindings, its answer, or its triples.

\* rdflib.term.Variable
Variable(s) == [kind |-> "var", str |-> s]

\* results.vars when the result declares variables, and None otherwise.
Vars(names) == [given |-> TRUE, names |-> names]
NoVars == [given |-> FALSE, names |-> <<>>]

\* for result in results: how many times the body of the loop runs.
IterationLength(results) ==
    CASE results.type = "SELECT" -> Len(results.bindings)
      [] results.type = "ASK"    -> 1
      [] OTHER                   -> Cardinality(results.graph)

\* bool(results)
ResultBool(results) ==
    IF results.type = "ASK" THEN results.askAnswer ELSE IterationLength(results) > 0

\* result.get(var) is not None
Bound(result, var) == str(var) \in DOMAIN result

\* The inner loop of _results_to_list, _results_to_json_manual and
\* _results_to_xml_manual: an entry for each variable that is bound.
DictRow(variables, result) ==
    [name \in {str(variables.names[i]) : i \in {j \in DOMAIN variables.names : Bound(result, variables.names[j])}} |->
        str(result[name])]

\* A faulty variant of CellRow: a cell for each variable that is bound.
CellRowBoundOnly(variables, result) ==
    SelectSeq([i \in DOMAIN variables.names |->
                   IF Bound(result, variables.names[i])
                   THEN str(result[str(variables.names[i])]) ELSE "<unbound>"],
              LAMBDA c : c /= "<unbound>")

\* The inner loop of _results_to_csv_manual and _results_to_table: a cell
\* for each variable, empty when the variable is not bound.
CellRow(variables, result) ==
    [i \in DOMAIN variables.names |->
        IF Bound(result, variables.names[i]) THEN str(result[str(variables.names[i])]) ELSE ""]

\* [str(var) for var in results.vars]
HeaderRow(variables) == [i \in DOMAIN variables.names |-> str(variables.names[i])]

\* for var in results.vars, when vars is None
NotIterable == Raise("TypeError", <<"'NoneType' object is not iterable">>)

\* The rows of a shape that has a dictionary for each binding.
DictRows(results) ==
    IF IterationLength(results) > 0 /\ ~results.vars.given THEN NotIterable
    ELSE Return(IF results.type = "SELECT"
                THEN [i \in DOMAIN results.bindings |->
                          DictRow(results.vars, results.bindings[i])]
                ELSE <<>>)

\* The rows of a shape that has a header and a list of cells for each binding.
CellRows(results) ==
    IF ~results.vars.given THEN NotIterable
    ELSE Return(<<HeaderRow(results.vars)>>
                  \o [i \in DOMAIN results.bindings |->
                          CellRow(results.vars, results.bindings[i])])

\* What a reshaping returns: the shape, whether the engine's serializer made
\* it, whether it is a text, and its rows.
Shaped(out, shape, text) ==
    IF out.kind = "raise" THEN out
    ELSE Return([shape |-> shape, native |-> FALSE, text |-> text, rows |-> out.value])

\* SPARQLProcessor._results_to_list(results)
results_to_list(results) == Shaped(DictRows(results), "list", FALSE)

\* SPARQLProcessor._results_to_table(results)
results_to_table(results) == Shaped(CellRows(results), "table", FALSE)

\* SPARQLProcessor._results_to_json_manual(results)
results_to_json_manual(results) == Shaped(DictRows(results), "json", TRUE)

\* SPARQLProcessor._results_to_csv_manual(results)
results_to_csv_manual(results) == Shaped(CellRows(results), "csv", TRUE)

\* SPARQLProcessor._results_to_xml_manual(results)
results_to_xml_manual(results) == Shaped(DictRows(results), "xml", TRUE)

\* The text the engine's own serializer of results gives when it returns:
\* the rows of the result in the format's standard form (a SELECT result
\* only; another result has no rows).
NativeText(results, shape) ==
    Return([shape |-> shape, native |-> TRUE, text |-> TRUE,
            rows |-> IF results.type /= "SELECT" THEN <<>>
                     ELSE IF shape = "csv" THEN CellRows(results).value
                     ELSE DictRows(results).value])

\* A faulty variant of NativeThenManual: the failure of the engine's
\* serializer is the failure of the reshaping.
NativeOnly(results, shape, native_ok, manual) ==
    IF native_ok THEN NativeText(results, shape)
    ELSE Raise("Exception", <<"native">>)

\* The try/except of _results_to_json, _results_to_csv and _results_to_xml:
\* the engine's serializer, and on any failure of it the manual construction.
NativeThenManual(results, shape, native_ok, manual) ==
    IF native_ok THEN NativeText(results, shape) ELSE manual

\* SPARQLProcessor._results_to_json(results)
results_to_json(results, native_ok) ==
    NativeThenManual(results, "json", native_ok, results_to_json_manual(results))

\* SPARQLProcessor._results_to_csv(results)
results_to_csv(results, native_ok) ==
    NativeThenManual(results, "csv", native_ok, results_to_csv_manual(results))

\* SPARQLProcessor._results_to_xml(results)
results_to_xml(results, native_ok) ==
    NativeThenManual(results, "xml", native_ok, results_to_xml_manual(results))

\* SPARQLProcessor._format_results(results, format_name), on the results as
\* they are read.  (format_results above is the same method in the course of
\* a query, where all that matters is whether it returns.)
reshape_results(results, format_name, native_ok) ==
    CASE format_name = "raw" ->
            Return([shape |-> "raw", native |-> FALSE, text |-> FALSE, rows |-> <<>>,
                    results |-> results])
      [] format_name = "bool" ->
            Return([shape |-> "bool", native |-> FALSE, text |-> FALSE, rows |-> <<>>,
                    answer |-> ResultBool(results)])
      [] format_name = "graph" ->
            Return([shape |-> "graph", native |-> FALSE, text |-> FALSE, rows |-> <<>>,
                    results |-> results])
      [] format_name = "json"  -> results_to_json(results, native_ok)
      [] format_name = "xml"   -> results_to_xml(results, native_ok)
      [] format_name = "csv"   -> results_to_csv(results, native_ok)
      [] format_name = "table" -> results_to_table(results)
      [] OTHER                 -> results_to_list(results)

----------------------------------------------------------------------------
(* Bounds and inputs of the query operations *)

\* The most lines ahead of the body of a query text.
MaxDecls == 2

\* Lines of a query text: declarations of prefixes in several spellings (the
\* keyword and the name in either case, a tab or two blanks after the
\* keyword), of a prefix that is no default, and a comment.
DeclLines ==
    {<<"PREFIX", " ", "rdf:", " ", "<urn:x>", "\n">>,
     <<"prefix", " ", "Foaf:", " ", "<urn:x>", "\n">>,
     <<"PREFIX", " ", "RDFS:", "<urn:x>", "\n">>,
     <<"PREFIX", "\t", "owl:", " ", "<urn:x>", "\n">>,
     <<"Prefix", " ", " ", "ex:", " ", "<urn:x>", "\n">>,
     <<"PREFIX", " ", "ex2:", " ", "<urn:x>", "\n">>,
     <<"PREFIX", " ", "my:", " ", "<urn:x>", "\n">>,
     <<"#", " ", "prefix", " ", "skos:", "\n">>}

QueryBodies ==
    {<<"SELECT", " ", "*", " ", "WHERE", " ", "{", " ", "?s", " ", "?p", " ", "?o", " ", "}">>,
     <<"\n", "ask", " ", "{", " ", "?s", " ", "rdf:", "type", " ", "foaf:", "Person", " ", "}">>,
     <<"THIS IS NOT SPARQL">>}

\* The lines of a list, one after the other.
RECURSIVE Concat(_)
Concat(lines) == IF lines = <<>> THEN <<>> ELSE Head(lines) \o Concat(Tail(lines))

QueryTexts ==
    {Concat(lines) \o b : lines \in SeqsUpTo(DeclLines, MaxDecls), b \in QueryBodies}

\* The query texts of the calls that go through every source and fault.
PlainQueries ==
    {<<"SELECT", " ", "*", " ", "WHERE", " ", "{", " ", "?s", " ", "?p", " ", "?o", " ", "}">>,
     <<"PREFIX", " ", "rdf:", " ", "<urn:x>", "\n">>
        \o <<"\n", "ask", " ", "{", " ", "?s", " ", "rdf:", "type", " ", "foaf:", "Person", " ", "}">>}

\* config['prefixes']: absent, or names in the order of the dictionary.
ConfigPrefixes == {<<>>, <<"my">>, <<"rdf", "my">>}

\* A Graph handed over as the source.
QueryGraph == [kind |-> "graph", triples |-> SerializeTriples]

QuerySources == {QueryGraph} \cup DatasetSources

Faults == {"none", "prepare", "execute", "native", "reshape", "iterate", "serialize"}

ResultFormats == {"raw", "bool", "graph", "json", "xml", "csv", "table", "list", "turtle"}

OutputFormats == {None, <<"turtle">>, <<"n_triples">>}

\* The bodies of the texts handed to validate_query: those of the queries,
\* and one of each other kind.
ValidateBodies ==
    QueryBodies
      \cup {<<"CONSTRUCT", " ", "{", " ", "?s", " ", "?p", " ", "?o", " ", "}", " ",
              "WHERE", " ", "{", " ", "?s", " ", "?p", " ", "?o", " ", "}">>,
            <<" ", "describe", " ", "<urn:x>", "\n">>}

\* What validate_query is handed: texts with up to MaxDecls lines ahead of
\* the body, and None.
ValidateTexts ==
    {Concat(lines) \o b : lines \in SeqsUpTo(DeclLines, MaxDecls), b \in ValidateBodies}
      \cup {None}

\* The calls of query: every source, format and fault with a plain query
\* text, and every query text and configuration on a graph.
QueryCalls ==
    [source : QuerySources, sparql_query : PlainQueries, result_format : ResultFormats,
     bindings : BOOLEAN, fault : Faults, config_prefixes : {<<>>}]
      \cup [source : {QueryGraph}, sparql_query : QueryTexts, result_format : {"list"},
            bindings : {FALSE}, fault : {"none"}, config_prefixes : ConfigPrefixes]

\* The most bindings of a result.
MaxRows == 2

\* The lists of declared variables.
VarLists == {<<>>, <<Variable("s")>>, <<Variable("s"), Variable("o")>>}

\* The values a variable is bound to; one of them has the empty text.
BoundValues == {URIRef("ex:a"), Literal("")}

\* The bindings over a list of variables: each binds some of them.
BindingsOver(names) ==
    UNION {[D -> BoundValues] : D \in SUBSET {str(names[i]) : i \in DOMAIN names}}

SelectResults ==
    UNION {{[type |-> "SELECT", vars |-> Vars(names), bindings |-> b,
             askAnswer |-> FALSE, graph |-> {}] :
               b \in SeqsUpTo(BindingsOver(names), MaxRows)} : names \in VarLists}

AskResults ==
    {[type |-> "ASK", vars |-> NoVars, bindings |-> <<>>, askAnswer |-> a, graph |-> {}] :
        a \in BOOLEAN}

ConstructResults ==
    {[type |-> t, vars |-> NoVars, bindings |-> <<>>, askAnswer |-> FALSE, graph |-> g] :
        t \in {"CONSTRUCT", "DESCRIBE"}, g \in {{}, SerializeTriples}}

EngineResults == SelectResults \cup AskResults \cup ConstructResults

----------------------------------------------------------------------------
(* The query operations *)

\* SPARQLProcessor.query(source, sparql_query, result_format, bindings)
Query ==
    /\ op = "idle"
    /\ \E c \in QueryCalls :
        \E load \in {LoadOf(c.source)} :
        \E r \in {query(c.source, c.sparql_query, c.result_format, c.bindings, c.fault,
                        c.config_prefixes, load)} :
            /\ op' = "query"
            /\ arg' = c
            /\ calls' = r.calls
            /\ ret' = r.out
            /\ logged' = r.logged
            /\ tried' = <<>>
            /\ registry' = registry
            /\ heap' = heap

\* SPARQLProcessor.query_multiple(sources, sparql_query, result_format)
QueryMultiple ==
    /\ op = "idle"
    /\ \E sources \in SeqsUpTo(DatasetSources, MaxSources), sparql_query \in PlainQueries,
          result_format \in {"json", "raw"}, fault \in Faults, kw \in BOOLEAN :
        \E loaded \in {parse_to_dataset(sources, <<>>, kw)} :
        \E r \in {query_multiple(loaded, sparql_query, result_format, fault)} :
            /\ op' = "query_multiple"
            /\ arg' = [sources |-> sources, sparql_query |-> sparql_query,
                       result_format |-> result_format, fault |-> fault,
                       add_graph_kw |-> kw]
            /\ calls' = r.calls
            /\ ret' = r.out
            /\ logged' = r.logged
            /\ tried' = loaded.tried
            /\ registry' = registry
            /\ heap' = heap

\* SPARQLProcessor.construct_query(source, construct_query, output_format)
Construct ==
    /\ op = "idle"
    /\ \E source \in QuerySources, sparql_query \in PlainQueries,
          output_format \in OutputFormats, fault \in Faults :
        \E load \in {LoadOf(source)} :
        \E r \in {construct_query(source, sparql_query, output_format, fault, load)} :
            /\ op' = "construct_query"
            /\ arg' = [source |-> source, sparql_query |-> sparql_query,
                       output_format |-> output_format, fault |-> fault]
            /\ calls' = r.calls
            /\ ret' = r.out
            /\ logged' = r.logged
            /\ tried' = <<>>
            /\ registry' = registry
            /\ heap' = heap

\* SPARQLProcessor.ask_query(source, ask_query)
Ask ==
    /\ op = "idle"
    /\ \E source \in QuerySources, sparql_query \in PlainQueries, fault \in Faults :
        \E load \in {LoadOf(source)} :
        \E r \in {ask_query(source, sparql_query, fault, load)} :
            /\ op' = "ask_query"
            /\ arg' = [source |-> source, sparql_query |-> sparql_query, fault |-> fault]
            /\ calls' = r.calls
            /\ ret' = r.out
            /\ logged' = r.logged
            /\ tried' = <<>>
            /\ registry' = registry
            /\ heap' = heap

\* SPARQLProcessor.describe_query(source, describe_query, output_format)
Describe ==
    /\ op = "idle"
    /\ \E source \in QuerySources, sparql_query \in PlainQueries,
          output_format \in OutputFormats, fault \in Faults :
        \E load \in {LoadOf(source)} :
        \E r \in {describe_query(source, sparql_query, output_format, fault, load)} :
            /\ op' = "describe_query"
            /\ arg' = [source |-> source, sparql_query |-> sparql_query,
                       output_format |-> output_format, fault |-> fault]
            /\ calls' = r.calls
            /\ ret' = r.out
            /\ logged' = r.logged
            /\ tried' = <<>>
            /\ registry' = registry
            /\ heap' = heap

\* SPARQLProcessor.get_query_statistics(source, sparql_query)
Statistics ==
    /\ op = "idle"
    /\ \E source \in QuerySources, sparql_query \in PlainQueries, fault \in Faults :
        \E load \in {LoadOf(source)} :
        \E r \in {get_query_statistics(source, sparql_query, fault, load)} :
            /\ op' = "get_query_statistics"
            /\ arg' = [source |-> source, sparql_query |-> sparql_query, fault |-> fault]
            /\ calls' = r.calls
            /\ ret' = r.out
            /\ logged' = r.logged
            /\ tried' = <<>>
            /\ registry' = registry
            /\ heap' = heap

\* SPARQLProcessor.validate_query(sparql_query)
ValidateQuery ==
    /\ op = "idle"
    /\ \E sparql_query \in ValidateTexts, fault \in {"none", "prepare"} :
        \E r \in {validate_query(sparql_query, fault, <<>>)} :
            /\ op' = "validate_query"
            /\ arg' = [sparql_query |-> sparql_query, fault |-> fault]
            /\ calls' = r.calls
            /\ ret' = r.out
            /\ logged' = r.logged
            /\ tried' = <<>>
            /\ registry' = registry
            /\ heap' = heap

NextQuery ==
    Query \/ QueryMultiple \/ Construct \/ Ask \/ Describe \/ Statistics
      \/ ValidateQuery \/ Done

SpecQuery == Init /\ [][NextQuery]_vars

\* SPARQLProcessor._format_results(results, format_name); native_ok is
\* whether the engine's own serializer returns, where it is asked.
FormatResults ==
    /\ op = "idle"
    /\ \E results \in EngineResults, format_name \in ResultFormats, native_ok \in BOOLEAN :
        /\ op' = "format_results"
        /\ arg' = [results |-> results, format_name |-> format_name,
                   native_ok |-> native_ok]
        /\ calls' = IF format_name \in NativeFormats
                    THEN <<Step("native", native_ok, format_name)>> ELSE <<>>
        /\ ret' = reshape_results(results, format_name, native_ok)
        /\ logged' = <<>>
        /\ tried' = <<>>
        /\ registry' = registry
        /\ heap' = heap

NextReshape == FormatResults \/ Done

SpecReshape == Init /\ [][NextReshape]_vars

----------------------------------------------------------------------------
(* Properties of the query operations *)

\* The steps of the last call with a name.
StepsNamed(name) == {i \in DOMAIN calls : calls[i].step = name}

\* A query got as far as the preparation of its text.
Prepared == op = "query" /\ StepsNamed("prepareQuery") /= {}

\* The text handed to the engine's prepareQuery.
PreparedText == calls[CHOOSE i \in StepsNamed("prepareQuery") : TRUE].detail

\* What stands in the prepared text ahead of the text of the query.
InjectedBlock == SubSeq(PreparedText, 1, Len(PreparedText) - Len(arg.sparql_query))

\* The prepared text ends with the text of the query.
SuffixKept ==
    /\ Len(PreparedText) >= Len(arg.sparql_query)
    /\ SubSeq(PreparedText, Len(PreparedText) - Len(arg.sparql_query) + 1,
              Len(PreparedText)) = arg.sparql_query

\* The default prefixes.
DefaultPrefixes == {"rdf", "rdfs", "xsd", "owl", "foaf", "dc", "dcterms", "skos", "ex"}

\* The declaration of a default prefix with its own URI stands in the
\* injected block.
Injected(name) ==
    Contains(InjectedBlock, <<"PREFIX", " ", NameColon[name], " ", DefaultPrefixUri[name]>>)

\* The upper-cased query text contains 'PREFIX <NAME>:'.
Matched(name) ==
    \E i \in 1..(Len(arg.sparql_query) - 2) :
        /\ arg.sparql_query[i] \in {"PREFIX", "prefix", "Prefix"}
        /\ arg.sparql_query[i + 1] = " "
        /\ arg.sparql_query[i + 2] \in
              {NameColon[name], UpperLex(NameColon[name]),
               IF name = "foaf" THEN "Foaf:" ELSE NameColon[name]}

\* The query text declares the prefix, as SPARQL reads it: at the start
\* of a line the keyword in any case, blanks, and the name with its colon.
Declares(name) ==
    \E i \in DOMAIN arg.sparql_query, j \in DOMAIN arg.sparql_query :
        /\ arg.sparql_query[i] \in {"PREFIX", "prefix", "Prefix"}
        /\ i = 1 \/ arg.sparql_query[i - 1] = "\n"
        /\ j >= i + 2
        /\ \A k \in (i + 1)..(j - 1) : arg.sparql_query[k] \in Whitespace
        /\ arg.sparql_query[j] = NameColon[name]

RECURSIVE Unmatched(_)
Unmatched(names) ==
    IF names = <<>> THEN 0
    ELSE (IF Matched(Head(names)) THEN 0 ELSE 1) + Unmatched(Tail(names))

QueryOps ==
    {"query", "query_multiple", "construct_query", "ask_query", "describe_query",
     "get_query_statistics"}

\* The load of the source of the last call fails.
SourceFails ==
    /\ op \in QueryOps \ {"query_multiple"}
    /\ arg.source.kind \notin {"graph", "dataset"}
    /\ arg.source.io /= "ok" \/ arg.source.accepts = {}

\* The engine fails at a step the last call gets to.
EngineFails ==
    /\ op \in QueryOps
    /\ ~SourceFails
    /\ \/ arg.fault \in {"prepare", "execute"}
       \/ arg.fault = "reshape" /\ op = "ask_query"
       \/ /\ arg.fault = "reshape" /\ op \in {"query", "query_multiple"}
          /\ arg.result_format \notin {"raw", "graph"}
       \/ /\ arg.fault = "iterate"
          /\ op \in {"construct_query", "describe_query", "get_query_statistics"}
       \/ /\ op \in {"construct_query", "describe_query"}
          /\ arg.fault = "serialize" \/ arg.output_format = None

\* The failure is one of the query that the operation calls.
FailsInQuery ==
    \/ SourceFails
    \/ /\ EngineFails
       /\ \/ arg.fault \in {"prepare", "execute"}
          \/ arg.fault = "reshape" /\ op \in {"ask_query", "query_multiple"}

\* The messages the operations put ahead of the message of the cause.
FailedPrefix ==
    [query |-> "SPARQL execution failed: ",
     query_multiple |-> "Multi-source SPARQL execution failed: ",
     construct_query |-> "CONSTRUCT query failed: ",
     ask_query |-> "ASK query failed: ",
     describe_query |-> "DESCRIBE query failed: ",
     get_query_statistics |-> "Query statistics failed: "]

\* C20: query, query_multiple, construct_query, ask_query, describe_query
\* and get_query_statistics raise nothing but SPARQLExecutionError; they
\* raise it when the load of the source fails and when the preparation, the
\* execution, the reshaping, the iteration or the serialization fails, and
\* return otherwise; a failure inside the query of a calling operation
\* arrives wrapped twice.
C20_OnlyExecutionError ==
    op \in QueryOps =>
        /\ ret.kind = "raise" => ret.exc = "SPARQLExecutionError"
        /\ (SourceFails \/ EngineFails) <=> ret.kind = "raise"
        /\ (\E i \in DOMAIN calls : ~calls[i].ok /\ calls[i].step /= "native")
              => ret.kind = "raise"
        /\ ret.kind = "raise" =>
              /\ ret.msg[1] = FailedPrefix[op]
              /\ logged /= <<>>
        /\ (op /= "query" /\ FailsInQuery) =>
              /\ ret.kind = "raise"
              /\ ret.msg[2] = FailedPrefix["query"]

\* An ASK on a file that does not exist: the RDFParsingError of the loader
\* arrives as SPARQLExecutionError, wrapped by query and by ask_query.
C20_Witness ==
    /\ op = "ask_query"
    /\ arg.source.kind = "str"
    /\ arg.source.io = "missing"
    /\ ret.kind = "raise"
    /\ ret.exc = "SPARQLExecutionError"
    /\ SubSeq(ret.msg, 1, 4) = <<"ASK query failed: ", "SPARQL execution failed: ",
                                "RDF parsing failed: ", "File not found: ">>

\* The leading keyword of a text: its first lexeme that is no blank, in
\* upper case, when that is one of the four query forms.
LeadingKeyword(text) ==
    LET inked == {i \in DOMAIN text : text[i] \notin Whitespace}
    IN  IF inked = {} THEN "UNKNOWN"
        ELSE LET first == text[CHOOSE i \in inked : \A j \in inked : i <= j]
             IN  IF \E k \in {"SELECT", "CONSTRUCT", "ASK", "DESCRIBE"} :
                        UpperLex(first) = k
                 THEN UpperLex(first) ELSE "UNKNOWN"

\* The preparation of the last call returned.
PreparationSucceeded ==
    \E i \in DOMAIN calls : calls[i].step = "prepareQuery" /\ calls[i].ok

\* C21: validate_query never raises.  When the preparation succeeds the
\* result is valid, has no errors and has the leading keyword of the trimmed
\* text as its query type (SELECT, CONSTRUCT, ASK, DESCRIBE in either case,
\* else UNKNOWN); when it fails, the result is not valid, has at least one
\* error, no query type and no prefixes.  The result is valid exactly when
\* it has no errors.
C21_ValidateNeverRaises ==
    op = "validate_query" =>
        /\ ret.kind = "return"
        /\ ret.value.valid <=> ret.value.errors = <<>>
        /\ PreparationSucceeded =>
               /\ ret.value.valid
               /\ ret.value.errors = <<>>
               /\ ret.value.query_type = <<LeadingKeyword(arg.sparql_query)>>
        /\ ~PreparationSucceeded =>
               /\ ~ret.value.valid
               /\ Len(ret.value.errors) >= 1
               /\ ret.value.query_type = None
               /\ DOMAIN ret.value.prefixes = {}

\* A text with blanks ahead of a lower-case keyword was found valid, with
\* the keyword as its query type.
C21_Witness ==
    /\ op = "validate_query"
    /\ ret.kind = "return"
    /\ ret.value.valid
    /\ arg.sparql_query[1] = " "
    /\ ret.value.query_type = <<"DESCRIBE">>

----------------------------------------------------------------------------
(* Properties of the reshaping of results *)

\* The names of the declared variables of the results handed over.
DeclaredNames ==
    [i \in DOMAIN arg.results.vars.names |-> arg.results.vars.names[i].str]

\* The formats that have a reshaping of their own, or none.
NamedFormats == {"raw", "bool", "graph", "json", "xml", "csv", "table"}

\* The rows returned have a dictionary for each binding, in the order of the
\* bindings, with exactly the variables the binding binds.
OmitsUnbound ==
    /\ Len(ret.value.rows) = Len(arg.results.bindings)
    /\ \A i \in DOMAIN arg.results.bindings :
        /\ DOMAIN ret.value.rows[i] = DOMAIN arg.results.bindings[i]
        /\ \A name \in DOMAIN arg.results.bindings[i] :
               ret.value.rows[i][name] = arg.results.bindings[i][name].str

\* The rows returned are a header with the names of the variables and a row
\* of cells for each binding, in the order of the bindings, with a cell for
\* each declared variable, empty when the binding does not bind it.
BlanksUnbound ==
    /\ Len(ret.value.rows) = Len(arg.results.bindings) + 1
    /\ ret.value.rows[1] = DeclaredNames
    /\ \A i \in DOMAIN arg.results.bindings :
        /\ Len(ret.value.rows[i + 1]) = Len(DeclaredNames)
        /\ \A j \in DOMAIN DeclaredNames :
               ret.value.rows[i + 1][j] =
                   IF DeclaredNames[j] \in DOMAIN arg.results.bindings[i]
                   THEN arg.results.bindings[i][DeclaredNames[j]].str
                   ELSE ""

\* C22: for every sequence of bindings, the reshaped output has one row for
\* each binding in the same order; in the json and the default list shape a
\* row has exactly the variables that are bound, in the csv and the table
\* shape every row has a cell for each declared variable, empty for one that
\* is not bound, after a header row with the names of the variables; a
\* format that is none of raw, bool, graph, json, xml, csv, table gives the
\* default list shape.
C22_RowRule ==
    (op = "format_results" /\ arg.results.type = "SELECT"
       /\ arg.format_name \notin {"raw", "bool", "graph"}) =>
        /\ ret.kind = "return"
        /\ ret.value.shape = IF arg.format_name \in NamedFormats
                             THEN arg.format_name ELSE "list"
        /\ ret.value.shape \in {"json", "list"} => OmitsUnbound
        /\ ret.value.shape \in {"csv", "table"} => BlanksUnbound

\* Two bindings over two variables, the second binding only one of them,
\* were made a table by the manual construction of csv.
C22_Witness ==
    /\ op = "format_results"
    /\ arg.results.type = "SELECT"
    /\ arg.format_name = "csv" /\ ~arg.native_ok
    /\ Len(arg.results.vars.names) = 2
    /\ Len(arg.results.bindings) = 2
    /\ DOMAIN arg.results.bindings[1] = {"s", "o"}
    /\ DOMAIN arg.results.bindings[2] = {"o"}
    /\ ret.kind = "return"
    /\ ret.value.rows[3][1] = ""
    /\ ret.value.rows[3][2] = arg.results.bindings[2]["o"].str

\* C23: for the json, csv and xml formats the engine's own serializer is
\* attempted first and, when it fails, the manual construction runs; for
\* every result (the bindings of a SELECT, the answer of an ASK, the graph
\* of a CONSTRUCT or DESCRIBE, with declared variables or without) the
\* reshaping returns a text and never raises.
C23_AlwaysOutput ==
    (op = "format_results" /\ arg.format_name \in NativeFormats) =>
        /\ Len(calls) >= 1 /\ calls[1].step = "native"
        /\ ret.kind = "return"
        /\ ret.value.text
        /\ ret.value.native <=> arg.native_ok

----------------------------------------------------------------------------
(* cli.py *)

\* An invocation is its arguments as the argument parser reads them, and
\* what the environment answers: the sources are those of the loader, the
\* query file is readable or not, the output file is writable or not, the
\* engine serializes or not, the engine raises at a step of the query or at
\* none.

\* The choices of --output-format.
OutputFormatChoices == {"json", "xml", "csv", "turtle", "table"}

\* The mode switches, in the order main tests them.
ModeSwitches == <<"convert", "validate", "stats", "schema">>

\* How an invocation ends: its exit code, whether the selected operation
\* produced its output, and the steps it took.
Exit(code, steps, output) == [exit |-> code, output |-> output, steps |-> steps]

\* A faulty variant of parse_arguments: a rejected value ends the
\* invocation like the failures main reports itself.
parse_arguments_exit_one(a) ==
    IF a.version = "first" THEN <<Exit(0, <<>>, FALSE)>>
    ELSE IF a.output_format \notin OutputFormatChoices THEN <<Exit(1, <<>>, FALSE)>>
    ELSE IF a.version = "last" THEN <<Exit(0, <<>>, FALSE)>>
    ELSE <<>>

\* parse_arguments(): the argument parser reads the options in their order;
\* --version prints the version and exits with 0, a value that is none of
\* the choices of its option prints the usage and exits with 2.  The empty
\* list stands for the arguments being handed on to main.
parse_arguments(a) ==
    IF a.version = "first" THEN <<Exit(0, <<>>, FALSE)>>
    ELSE IF a.output_format \notin OutputFormatChoices THEN <<Exit(2, <<>>, FALSE)>>
    ELSE IF a.version = "last" THEN <<Exit(0, <<>>, FALSE)>>
    ELSE <<>>

\* save_output(content, output_file)
save_output(steps, output) ==
    IF output = "unwritable"
    THEN Exit(1, Append(steps, Step("save_output", FALSE, output)), FALSE)
    ELSE Exit(0, Append(steps, Step("save_output", TRUE, output)), TRUE)

\* The first mode switch that is set, or the default mode.
ModeOf(a) ==
    IF \E i \in DOMAIN ModeSwitches : ModeSwitches[i] \in a.switches
    THEN ModeSwitches[CHOOSE i \in DOMAIN ModeSwitches :
                          /\ ModeSwitches[i] \in a.switches
                          /\ \A j \in 1..(i - 1) : ModeSwitches[j] \notin a.switches]
    ELSE "query"

\* The triples of a loaded graph, as terms.
Terms(graph) == {<<URIRef(t[1]), URIRef(t[2]), Literal(t[3])>> : t \in graph}

\* An operation of main raised: 'except Exception' logs and exits with 1.
OperationFailed(steps, name, detail) ==
    Exit(1, Append(steps, Step(name, FALSE, detail)), FALSE)

\* The modes of main that parse the one source and write what a graph
\* operation makes of it; load is what parse answers for the source.
GraphMode(a, mode, load) ==
    IF load.out.kind = "raise" THEN OperationFailed(<<>>, "parse", load.calls)
    ELSE LET parsed == <<Step("parse", TRUE, load.calls)>>
             graph == Terms(load.out.value)
             ser == serialize(IF mode = "schema" THEN extract_schema(graph) ELSE graph,
                              a.target_format, None, a.engine_ok)
         IN  IF mode \in {"validate", "stats"}
             THEN save_output(Append(parsed, Step("validate_graph", TRUE,
                                  validate_graph(graph, graph, ~a.engine_ok))),
                              a.output)
             ELSE IF ser.out.kind = "raise"
             THEN OperationFailed(parsed, "serialize", ser.calls)
             ELSE save_output(Append(parsed, Step("serialize", TRUE, ser.calls)),
                              a.output)

\* The default mode of main; qr is what query, or query_multiple, answers.
QueryMode(a, multiple, qr) ==
    IF ~Truthy(a.query) /\ a.query_file = "none"
    THEN Exit(1, <<>>, FALSE)
    ELSE IF ~Truthy(a.query) /\ a.query_file = "unreadable"
    THEN Exit(1, <<Step("load_query_from_file", FALSE, <<>>)>>, FALSE)
    ELSE LET name == IF multiple THEN "query_multiple" ELSE "query"
         IN  IF qr.out.kind = "raise" THEN OperationFailed(<<>>, name, qr.calls)
             ELSE save_output(<<Step(name, TRUE, qr.calls)>>, a.output)

\* main(), after parse_arguments handed the arguments on.
MainBody(a, load, qr) ==
    LET single == Truthy(a.input.text)
        multiple == ~single /\ a.inputs /= <<>>
        mode == ModeOf(a)
    IN  IF ~single /\ ~multiple THEN Exit(1, <<>>, FALSE)
        ELSE IF mode /= "query"
        THEN IF multiple THEN Exit(1, <<>>, FALSE) ELSE GraphMode(a, mode, load)
        ELSE QueryMode(a, multiple, qr)

\* main()
main(a, load, qr) ==
    IF parse_arguments(a) /= <<>> THEN parse_arguments(a)[1] ELSE MainBody(a, load, qr)

----------------------------------------------------------------------------
(* Bounds and inputs of the command line *)

\* The text of a query, on the command line or in the query file.
SelectAll ==
    <<"SELECT", " ", "*", " ", "WHERE", " ", "{", " ", "?s", " ", "?p", " ", "?o", " ", "}">>

\* --input: absent, empty, or a source of the loader.
CliInputs ==
    {Source("str", None, "missing", None, NoBody),
     Source("str", <<>>, "missing", None, NoBody)}
      \cup DatasetSources

\* The sources of --inputs: one that loads and one that does not.
CliListSources ==
    {s \in DatasetSources : s.text \in {<<"good", ".ttl">>, <<"missing", ".rdf">>}}

\* --inputs: absent, or a list of at least one source.
CliInputLists == SeqsUpTo(CliListSources, MaxSources)

\* The invocations: every single input in every combination of the mode
\* switches; lists of inputs; and the ways of giving no input, no query, a
\* value that is no choice, and --version.
Invocations ==
    [input : CliInputs, inputs : {<<>>}, switches : SUBSET {"convert", "validate", "stats", "schema"},
     query : {SelectAll}, query_file : {"none"}, output_format : {"json"},
     target_format : {<<"turtle">>}, version : {"absent"},
     output : {"stdout", "writable", "unwritable"}, engine_ok : BOOLEAN,
     fault : {"none", "execute"}, add_graph_kw : {TRUE}]
      \cup
    [input : {i \in CliInputs : i.text \in {None, <<>>, <<"good", ".ttl">>}},
     inputs : CliInputLists, switches : {{}, {"validate"}, {"schema", "stats"}},
     query : {SelectAll}, query_file : {"none"}, output_format : {"json", "table"},
     target_format : {<<"turtle">>}, version : {"absent"},
     output : {"stdout"}, engine_ok : {TRUE},
     fault : {"none", "execute"}, add_graph_kw : BOOLEAN]
      \cup
    [input : {i \in CliInputs : i.text \in {None, <<"good", ".ttl">>}},
     inputs : {l \in CliInputLists : Len(l) <= 1}, switches : {{}, {"convert"}},
     query : {None, <<>>, SelectAll}, query_file : {"none", "readable", "unreadable"},
     output_format : {"json", "bogus"},
     target_format : {<<"turtle">>}, version : {"absent", "first", "last"},
     output : {"stdout"}, engine_ok : {TRUE},
     fault : {"none"}, add_graph_kw : {TRUE}]

\* The text of the query main executes: the query file holds SelectAll.
QueryOf(a) == IF Truthy(a.query) THEN a.query ELSE SelectAll

----------------------------------------------------------------------------
(* The command line *)

\* What the query of the default mode answers: query on the one source, or
\* query_multiple on the list.
CliQuery(a, load) ==
    IF Truthy(a.input.text)
    THEN query(a.input, QueryOf(a), a.output_format, FALSE, a.fault, <<>>, load)
    ELSE query_multiple(load, QueryOf(a), a.output_format, a.fault)

\* What the loader answers for the input: parse for the one source,
\* parse_to_dataset for the list.
CliLoad(a) ==
    IF Truthy(a.input.text) THEN parse(a.input, None, None)
    ELSE parse_to_dataset(a.inputs, <<>>, a.add_graph_kw)

\* main()
Main ==
    /\ op = "idle"
    /\ \E a \in Invocations :
        \E load \in {CliLoad(a)} :
        \E qr \in {CliQuery(a, load)} :
        \E r \in {main(a, load, qr)} :
            /\ op' = "main"
            /\ arg' = a
            /\ calls' = r.steps
            /\ ret' = Return([exit |-> r.exit, output |-> r.output])
            /\ logged' = <<>>
            /\ tried' = <<>>
            /\ registry' = registry
            /\ heap' = heap

NextCli == Main \/ Done

SpecCli == Init /\ [][NextCli]_vars

----------------------------------------------------------------------------
(* Properties of the command line *)

\* One input is given, or a list of inputs is.
SingleInput == Truthy(arg.input.text)
ListOfInputs == ~SingleInput /\ arg.inputs /= <<>>

\* The ways an invocation fails on its arguments.
ParserRejects ==
    arg.output_format \notin OutputFormatChoices /\ arg.version /= "first"
NoInput == ~SingleInput /\ ~ListOfInputs
ManyForOne == ListOfInputs /\ arg.switches /= {}
NoQuery == arg.switches = {} /\ ~Truthy(arg.query) /\ arg.query_file = "none"

\* --version ends the invocation.
VersionExit ==
    \/ arg.version = "first"
    \/ arg.version = "last" /\ arg.output_format \in OutputFormatChoices

\* main gets to the operation of the selected mode.
ReachesOperation ==
    /\ ~ParserRejects /\ ~VersionExit
    /\ ~NoInput /\ ~ManyForOne
    /\ arg.switches = {} => (Truthy(arg.query) \/ arg.query_file = "readable")

\* A source that cannot be fetched, read, or parsed under any format.
InputFails(source) == source.io /= "ok" \/ source.accepts = {}

\* An input of the invocation fails to load, in the course of it.
LoadFailure ==
    /\ ReachesOperation
    /\ \/ SingleInput /\ InputFails(arg.input)
       \/ ListOfInputs /\ \E i \in DOMAIN arg.inputs : InputFails(arg.inputs[i])

\* The selected mode serializes a graph.
SerializingMode ==
    \/ "convert" \in arg.switches
    \/ "schema" \in arg.switches /\ arg.switches \cap {"validate", "stats"} = {}

\* An operation of the invocation raises, or its output cannot be written.
OperationRaises ==
    /\ ReachesOperation
    /\ \/ SingleInput /\ InputFails(arg.input)
       \/ SerializingMode /\ ~arg.engine_ok
       \/ arg.switches = {} /\ arg.fault = "execute"
       \/ arg.output = "unwritable"

----------------------------------------------------------------------------
(* The tables of the registry *)

\* config['headers'] of a parser: absent, or headers of the caller, one of
\* them under a name the negotiation headers have.
ConfigHeaders ==
    {<<>>, ("X-Api-Key" :> "k"), ("Accept" :> "text/turtle"),
     ("Accept" :> "text/turtle") @@ ("X-Api-Key" :> "k")}

\* The sources that are URLs.
UrlSources == {s \in DatasetSources : is_url(s.text)}

\* FormatHandler.get_mime_types()
GetMimeTypes ==
    /\ op = "idle"
    /\ op' = "get_mime_types"
    /\ arg' = [source |-> None]
    /\ calls' = <<>>
    /\ ret' = Return(get_mime_types(registry))
    /\ logged' = <<>>
    /\ tried' = <<>>
    /\ registry' = registry
    /\ heap' = heap

\* FormatHandler.get_extensions()
GetExtensions ==
    /\ op = "idle"
    /\ op' = "get_extensions"
    /\ arg' = [source |-> None]
    /\ calls' = <<>>
    /\ ret' = Return(get_extensions(registry))
    /\ logged' = <<>>
    /\ tried' = <<>>
    /\ registry' = registry
    /\ heap' = heap

\* FormatHandler.get_content_negotiation_headers()
GetHeaders ==
    /\ op = "idle"
    /\ op' = "get_content_negotiation_headers"
    /\ arg' = [source |-> None]
    /\ calls' = <<>>
    /\ ret' = Return(get_content_negotiation_headers(registry))
    /\ logged' = <<>>
    /\ tried' = <<>>
    /\ registry' = registry
    /\ heap' = heap

\* The caller changes the object it was handed: it adds a member to the
\* set, or an entry to the dictionary.  An object the registry holds is
\* changed there as well.
CallerChanges ==
    /\ op \in {"get_mime_types", "get_extensions", "get_content_negotiation_headers"}
    /\ ret.kind = "return"
    /\ IF op = "get_content_negotiation_headers"
       THEN /\ "X-Added" \notin DOMAIN ret.value.value
            /\ ret' = Return(Object(ret.value.ref, ("X-Added" :> "1") @@ ret.value.value))
            /\ registry' = HeldAfterUpdate(registry, ret.value, ("X-Added" :> "1"))
       ELSE /\ "x/added" \notin ret.value.value
            /\ ret' = Return(Object(ret.value.ref, ret.value.value \cup {"x/added"}))
            /\ registry' = HeldAfterUpdate(registry, ret.value, ("x/added" :> "TURTLE"))
    /\ UNCHANGED <<op, arg, calls, logged, tried, heap>>

\* RDFParser(config).parse(url): the request carries the negotiation headers
\* updated with those of the configuration.
LoadWithHeaders ==
    /\ op = "idle"
    /\ \E src \in UrlSources, config_headers \in ConfigHeaders :
        \E r \in {parse(src, None, None)} :
        \E h \in {RequestHeaders(registry, config_headers)} :
            /\ op' = "parse_with_headers"
            /\ arg' = [source |-> src, config_headers |-> config_headers,
                       sent |-> h.sent]
            /\ calls' = r.calls
            /\ ret' = r.out
            /\ logged' = r.logged
            /\ tried' = <<>>
            /\ registry' = h.held
            /\ heap' = heap

\* The operations that read the tables or hand out what they hold, with
\* an operation of each other component, in any order.
NextTables ==
    \/ GetMimeTypes \/ GetExtensions \/ GetHeaders \/ CallerChanges
    \/ Detect \/ LoadWithHeaders \/ LoadDataset
    \/ Serialize \/ ValidateQuery
    \/ Done

SpecTables == Init /\ [][NextTables]_vars

----------------------------------------------------------------------------
(* Properties of the tables of the registry *)

\* C25: the three tables of the registry (extension to format, MIME type to
\* format, format to engine token) and the default negotiation headers hold
\* their initial contents after any sequence of operations of the registry,
\* the loader, the graph operations and the query dispatcher, loads with
\* headers of the caller and calls that return the sets of MIME types or of
\* extensions or the negotiation headers among them.
C25_TablesReadOnly == registry = InitialRegistry

\* A load sent the caller's Accept header in place of the default one,
\* beside the caller's own header and the default User-Agent, and the
\* registry still holds the default Accept header.
C25_Witness ==
    /\ op = "parse_with_headers"
    /\ arg.sent["Accept"] = "text/turtle"
    /\ "X-Api-Key" \in DOMAIN arg.sent
    /\ arg.sent["User-Agent"] = DefaultHeaders["User-Agent"]
    /\ registry.headers["Accept"] = DefaultHeaders["Accept"]
    /\ registry.headers["Accept"] /= arg.sent["Accept"]

----------------------------------------------------------------------------
(* Properties of the propagation of errors *)

\* The kinds of error the operations raise to their callers.
ErrorKinds ==
    {"RDFParsingError", "FetchError", "RDFConversionError", "SPARQLExecutionError"}

\* A step of the last call failed, outside the retry loop over the formats
\* and the loop over the sources of a list (whose failures are within the
\* steps parse and parse_to_dataset).
StepFailed == \E i \in DOMAIN calls : ~calls[i].ok

\* C26: a failure within an operation is swallowed (logged or recorded, the
\* operation going on without raising to its caller) only in the retry loop
\* over the formats and in the loading of a list of sources; every other
\* failure within the loader, the graph operations and the query dispatcher
\* is raised to the caller as a ParsingError, FetchError, ConversionError or
\* ExecutionError.
C26_FailuresRaised ==
    (op \in QueryOps \cup {"validate_query"} /\ StepFailed) =>
        /\ ret.kind = "raise"
        /\ ret.exc \in ErrorKinds

----------------------------------------------------------------------------
(* Properties of the tokens of a load *)

\* C27: within one load no format token is handed to the engine's parser
\* more than once: whatever format the first attempt was made with (OWL/XML,
\* RDF-Thrift and Default, whose token is the one of RDF/XML, included), the
\* retry loop makes no attempt with the token the first attempt failed with.
C27_NoTokenTwice ==
    op = "parse" =>
        \A i, j \in DOMAIN calls : i < j => calls[i].token /= calls[j].token

----------------------------------------------------------------------------
(* Properties of the injected block *)

\* The places of the injected block where a declaration of the name starts.
DeclarationsOf(name) ==
    {i \in 1..(Len(InjectedBlock) - 2) :
        /\ InjectedBlock[i] = "PREFIX"
        /\ InjectedBlock[i + 2] = NameColon[name]}

\* C28: the injected block holds at most one PREFIX declaration for each
\* prefix name, whatever the query text and the configured prefixes are
\* (configured prefixes with the name of a default prefix included), and
\* injecting into the text that was injected into adds nothing.
C28_InjectedOnce ==
    Prepared =>
        /\ \A name \in DOMAIN NameColon : Cardinality(DeclarationsOf(name)) <= 1
        /\ add_default_prefixes(PreparedText, arg.config_prefixes) = PreparedText

----------------------------------------------------------------------------
(* The operations on the Graph objects of the caller *)

\* Graph(): a new object, which no name of the caller refers to.
NewGraph == Object("fresh", EmptyGraph)

\* The object a name of the caller refers to.
Held(h, name) == Object(name, h[name])

\* What the caller holds after an object was written to: a new object is
\* none of the caller's.
Stored(h, object) ==
    IF object.ref \in DOMAIN h THEN [h EXCEPT ![object.ref] = object.value] ELSE h

\* graph.bind(prefix, uri) for each of the prefixes.
BindAll(object, prefixes) ==
    Object(object.ref, [object.value EXCEPT !.namespaces = @ \cup prefixes])

\* graph.add(triple) for each of the triples.
AddAll(object, triples) ==
    Object(object.ref, [object.value EXCEPT !.triples = GraphAdd(@, triples)])

\* A faulty variant of MergeTarget: without a target the first graph of the
\* list is merged into.
MergeTargetFirst(h, names, target_graph) ==
    IF target_graph.given THEN Held(h, target_graph.name)
    ELSE IF names /= <<>> THEN Held(h, names[1])
    ELSE NewGraph

\* "if target_graph is None: target_graph = Graph()"
MergeTarget(h, names, target_graph) ==
    IF target_graph.given THEN Held(h, target_graph.name) ELSE NewGraph

\* The loop of merge_graphs over the graphs of the list, each read as the
\* caller holds it when its turn comes.
RECURSIVE MergeHeldLoop(_, _, _)
MergeHeldLoop(h, names, target) ==
    IF names = <<>> THEN [heap |-> h, out |-> target]
    ELSE LET added == AddAll(target, h[Head(names)].triples)
         IN  MergeHeldLoop(Stored(h, added), Tail(names), added)

\* RDFToRDF.merge_graphs(graphs, target_graph) on graphs the caller holds.
merge_held(h, names, target_graph) ==
    LET bound == BindAll(MergeTarget(h, names, target_graph), CommonNamespaces)
    IN  MergeHeldLoop(Stored(h, bound), names, bound)

\* RDFToRDF.filter_graph(graph, ...) on a graph the caller holds.
filter_held(h, name, predicate_filter, subject_filter, object_filter) ==
    LET filtered_graph == BindAll(NewGraph, CommonNamespaces)
        out == AddAll(filtered_graph,
                      filter_graph(h[name].triples, predicate_filter, subject_filter,
                                   object_filter))
    IN  [heap |-> Stored(h, out), out |-> out]

\* RDFToRDF.extract_schema(graph) on a graph the caller holds.
extract_schema_held(h, name) ==
    LET schema_graph == BindAll(NewGraph, CommonNamespaces)
        out == AddAll(schema_graph, extract_schema(h[name].triples))
    IN  [heap |-> Stored(h, out), out |-> out]

\* RDFToRDF.validate_graph(graph) on a graph the caller holds: the graph is
\* read, the report is a new dictionary.
validate_held(h, name, failed) ==
    [heap |-> h,
     out |-> Object("fresh", validate_graph(h[name].triples, h[name].triples, failed))]

\* SPARQLProcessor._add_prefixes_to_graph(graph)
add_prefixes_to_graph(object, config_prefixes) ==
    BindAll(object, {DefaultPrefixNames[i] : i \in DOMAIN DefaultPrefixNames}
                      \cup {config_prefixes[i] : i \in DOMAIN config_prefixes})

\* "target = source", then _add_prefixes_to_graph(target): what the caller
\* holds when the query is prepared.
QueryTarget(h, name, config_prefixes) ==
    Stored(h, add_prefixes_to_graph(Held(h, name), config_prefixes))

\* The Graph handed to query.
GraphSource(h, name) == [kind |-> "graph", triples |-> h[name].triples]

----------------------------------------------------------------------------
(* Bounds and inputs of the operations on the caller's graphs *)

\* The triples the caller adds: one of the data, one of the schema.
HeldTriples ==
    {<<URIRef("ex:a"), URIRef("ex:p"), URIRef("ex:b")>>,
     <<URIRef("ex:C"), RDF_type, RDFS_Class>>}

\* target_graph: None, or a graph of the caller.
HeldTargets ==
    {[given |-> FALSE, name |-> "none"]}
      \cup {[given |-> TRUE, name |-> n] : n \in GraphNames}

\* The allow-lists of the filter.
HeldFilters == {None, <<"ex:p">>}

\* The configured prefixes.
HeldConfigPrefixes == {<<>>, <<"my">>}

\* The engine's failures of a query.
HeldFaults == {"none", "execute"}

\* The query asked.
HeldQuery ==
    <<"SELECT", " ", "*", " ", "WHERE", " ", "{", " ", "?s", " ", "?p", " ", "?o", " ", "}">>

----------------------------------------------------------------------------
(* The operations on the caller's graphs *)

\* The caller adds a triple to one of its graphs.
CallerAdds ==
    /\ op = "idle"
    /\ \E name \in GraphNames, triple \in HeldTriples :
        /\ triple \notin heap[name].triples
        /\ heap' = Stored(heap, AddAll(Held(heap, name), {triple}))
    /\ UNCHANGED <<op, arg, calls, ret, logged, tried, registry>>

\* The caller binds a prefix of its own on one of its graphs.
CallerBinds ==
    /\ op = "idle"
    /\ \E name \in GraphNames :
        /\ "my" \notin heap[name].namespaces
        /\ heap' = Stored(heap, BindAll(Held(heap, name), {"my"}))
    /\ UNCHANGED <<op, arg, calls, ret, logged, tried, registry>>

\* RDFToRDF.merge_graphs(graphs, target_graph)
MergeHeld ==
    /\ op = "idle"
    /\ \E names \in SeqsUpTo(GraphNames, MaxGraphs), target_graph \in HeldTargets :
        \E r \in {merge_held(heap, names, target_graph)} :
            /\ op' = "merge_graphs"
            /\ arg' = [names |-> names, target_graph |-> target_graph, before |-> heap]
            /\ calls' = <<>>
            /\ ret' = Return(r.out)
            /\ logged' = <<>>
            /\ tried' = <<>>
            /\ registry' = registry
            /\ heap' = r.heap

\* RDFToRDF.filter_graph(graph, predicate_filter, subject_filter, object_filter)
FilterHeld ==
    /\ op = "idle"
    /\ \E name \in GraphNames, predicate_filter \in HeldFilters :
        \E r \in {filter_held(heap, name, predicate_filter, None, None)} :
            /\ op' = "filter_graph"
            /\ arg' = [name |-> name, predicate_filter |-> predicate_filter,
                       before |-> heap]
            /\ calls' = <<>>
            /\ ret' = Return(r.out)
            /\ logged' = <<>>
            /\ tried' = <<>>
            /\ registry' = registry
            /\ heap' = r.heap

\* RDFToRDF.validate_graph(graph)
ValidateHeld ==
    /\ op = "idle"
    /\ \E name \in GraphNames, failed \in BOOLEAN :
        \E r \in {validate_held(heap, name, failed)} :
            /\ op' = "validate_graph"
            /\ arg' = [name |-> name, failed |-> failed, before |-> heap]
            /\ calls' = <<>>
            /\ ret' = Return(r.out)
            /\ logged' = <<>>
            /\ tried' = <<>>
            /\ registry' = registry
            /\ heap' = r.heap

\* RDFToRDF.extract_schema(graph)
ExtractSchemaHeld ==
    /\ op = "idle"
    /\ \E name \in GraphNames :
        \E r \in {extract_schema_held(heap, name)} :
            /\ op' = "extract_schema"
            /\ arg' = [name |-> name, before |-> heap]
            /\ calls' = <<>>
            /\ ret' = Return(r.out)
            /\ logged' = <<>>
            /\ tried' = <<>>
            /\ registry' = registry
            /\ heap' = r.heap

\* SPARQLProcessor.query(graph, sparql_query, 'list')
QueryHeld ==
    /\ op = "idle"
    /\ \E name \in GraphNames, fault \in HeldFaults, config_prefixes \in HeldConfigPrefixes :
        \E h \in {QueryTarget(heap, name, config_prefixes)} :
        \E r \in {query(GraphSource(h, name), HeldQuery, "list", FALSE, fault,
                        config_prefixes, LoadOf(GraphSource(h, name)))} :
            /\ op' = "query"
            /\ arg' = [name |-> name, fault |-> fault,
                       config_prefixes |-> config_prefixes, before |-> heap]
            /\ calls' = r.calls
            /\ ret' = r.out
            /\ logged' = r.logged
            /\ tried' = <<>>
            /\ registry' = registry
            /\ heap' = h

\* SPARQLProcessor.ask_query(graph, ask_query)
AskHeld ==
    /\ op = "idle"
    /\ \E name \in GraphNames, fault \in HeldFaults :
        \E h \in {QueryTarget(heap, name, <<>>)} :
        \E r \in {ask_query(GraphSource(h, name), HeldQuery, fault,
                            LoadOf(GraphSource(h, name)))} :
            /\ op' = "ask_query"
            /\ arg' = [name |-> name, fault |-> fault, before |-> heap]
            /\ calls' = r.calls
            /\ ret' = r.out
            /\ logged' = r.logged
            /\ tried' = <<>>
            /\ registry' = registry
            /\ heap' = h

\* SPARQLProcessor.get_query_statistics(graph, sparql_query)
StatisticsHeld ==
    /\ op = "idle"
    /\ \E name \in GraphNames, fault \in HeldFaults :
        \E h \in {QueryTarget(heap, name, <<>>)} :
        \E r \in {get_query_statistics(GraphSource(h, name), HeldQuery, fault,
                                       LoadOf(GraphSource(h, name)))} :
            /\ op' = "get_query_statistics"
            /\ arg' = [name |-> name, fault |-> fault, before |-> heap]
            /\ calls' = r.calls
            /\ ret' = r.out
            /\ logged' = r.logged
            /\ tried' = <<>>
            /\ registry' = registry
            /\ heap' = h

NextHeld ==
    \/ CallerAdds \/ CallerBinds
    \/ MergeHeld \/ FilterHeld \/ ValidateHeld \/ ExtractSchemaHeld
    \/ QueryHeld \/ AskHeld \/ StatisticsHeld
    \/ Done

SpecHeld == Init /\ [][NextHeld]_vars

----------------------------------------------------------------------------
(* Properties of the operations on the caller's graphs *)

\* The operations that leave what the caller holds as it is.
ReadOnlyCall ==
    \/ op \in {"filter_graph", "extract_schema", "validate_graph"}
    \/ op = "merge_graphs" /\ ~arg.target_graph.given

----------------------------------------------------------------------------
(* Properties of the query on several sources *)

\* The preparation, the execution or the reshaping of the last query on
\* several sources fails.
QueryItselfFails ==
    \/ arg.fault \in {"prepare", "execute"}
    \/ arg.fault = "reshape" /\ arg.result_format /= "raw"

\* What parse answers for the i-th source of the list.
LoadOfSource(i) == parse(arg.sources[i], None, None).out

====
